---- MODULE Spec2Model ----
(***************************************************************************)
(* Impersonation dispatch and webhook cache of robfrawley/ImpersonationBot. *)
(*                                                                         *)
(* The model follows src/bot/utils/webhook_manager.py (WebhookManager, the *)
(* per-channel cache of webhooks) and src/bot/utils/helpers.py             *)
(* (send_as_profile, the dispatch of one chunk).  Every coroutine is a     *)
(* task; a task runs without interruption between two awaits that really   *)
(* suspend (webhook listing, webhook delete, avatar fetch, webhook create, *)
(* webhook send, history insert), so each action below is the code between *)
(* two such awaits.                                                        *)
(***************************************************************************)
EXTENDS Integers, Sequences, FiniteSets, TLC

(***************************************************************************)
(* Bounds of the model.                                                    *)
(***************************************************************************)
ConfiguredLimit == 1      \* the limit handed to WebhookManager(limit)
MaxHandles == 2           \* webhook ids the transport hands out
MaxTime == 1              \* readings of the wall clock
MaxMessages == 2          \* message ids the transport hands out
MaxTrigger == 2           \* characters of a trigger handed to the lookup
MaxLen == 5               \* characters of a text handed to _split_message
MaxLimit == 3             \* the limit handed to _split_message
ChunkLimit == 4           \* the limit track_messages splits the content at
MaxPieces == 2            \* pieces of a text handed to the emoji conversion
MaxStickers == 2          \* stickers of a part handed to send_as_profile
MaxProfiles == 2          \* profiles of a configuration handed to the validator
MaxTriggers == 2          \* triggers of a profile of such a configuration

Tasks == {1, 2}
Channels == {1, 2}
Users == {1, 2}

(***************************************************************************)
(* Configuration (settings.py).                                            *)
(***************************************************************************)
enabled_channels == {1}

\* settings.impersonation_profiles: three profiles, the third restricted to
\* user 1.  A trigger is a string, written as a tuple of characters; the
\* triggers are kept as they are configured, one of them with a capital.
impersonation_profiles ==
    << [triggers |-> << <<"a">> >>, username |-> "A",
        restricted |-> FALSE, restricted_users |-> {}],
       [triggers |-> << <<"b">>, <<"B", "o">> >>, username |-> "B",
        restricted |-> FALSE, restricted_users |-> {}],
       [triggers |-> << <<"c">> >>, username |-> "C",
        restricted |-> TRUE, restricted_users |-> {1}] >>

\* The trigger strings users type in the model: a configured trigger, an
\* upper-case variant of one, the trigger of the restricted profile, and a
\* string no profile has.
TriggerInputs == { <<"a">>, <<"B">>, <<"c">>, <<"x">> }

\* str.lower() on the characters of the model's alphabet.
LowerChar(ch) ==
    CASE ch = "A" -> "a"
      [] ch = "B" -> "b"
      [] ch = "C" -> "c"
      [] ch = "O" -> "o"
      [] ch = "S" -> "s"
      [] ch = "X" -> "x"
      [] OTHER -> ch

Lower(s) == [i \in DOMAIN s |-> LowerChar(s[i])]

\* WebhookManager.limit
Limit == IF ConfiguredLimit > 1 THEN ConfiguredLimit ELSE 1

\* guild.me, the user every webhook the bot creates belongs to
Me == "me"

(***************************************************************************)
(* Persona registry (settings.py, helpers.py).                             *)
(***************************************************************************)
\* ImpersonationProfile.is_allowed_user
is_allowed_user(p, user_id) ==
    IF ~p.restricted THEN TRUE ELSE user_id \in p.restricted_users

\* `trigger in p.triggers` on a list of strings
HasTrigger(p, trigger) == \E i \in DOMAIN p.triggers : p.triggers[i] = trigger

\* The indexes of the profiles that the generator of
\* get_profile_by_trigger_and_user yields, in registry order.
MatchingProfiles(profiles, profile_trigger, user_id) ==
    { i \in DOMAIN profiles :
        HasTrigger(profiles[i], Lower(profile_trigger))
        /\ is_allowed_user(profiles[i], user_id) }

\* A faulty variant of get_profile_by_trigger_and_user: the is_allowed_user test is
\* left out of the generator.
get_profile_ignoring_user(profiles, profile_trigger, user_id) ==
    LET m == { i \in DOMAIN profiles : HasTrigger(profiles[i], Lower(profile_trigger)) }
    IN  IF m = {} THEN 0 ELSE CHOOSE i \in m : \A j \in m : i <= j

\* get_profile_by_trigger_and_user: next(generator, None).  The result is
\* the index of the profile in the registry, 0 for None.
get_profile_by_trigger_and_user(profiles, profile_trigger, user_id) ==
    LET m == MatchingProfiles(profiles, profile_trigger, user_id)
    IN  IF m = {} THEN 0 ELSE CHOOSE i \in m : \A j \in m : i <= j

\* A faulty variant of ProfileListing: every profile is listed, whoever asks.
ProfileListingOfAll(profiles, user_id) ==
    [i \in DOMAIN profiles |->
        [username |-> profiles[i].username, triggers |-> profiles[i].triggers]]

\* The lines of the listing send_as_profile builds for the not-found
\* message: one per profile the user may use, in registry order.
ProfileListing(profiles, user_id) ==
    LET allowed == SelectSeq(profiles, LAMBDA p : is_allowed_user(p, user_id))
    IN  [i \in DOMAIN allowed |->
            [username |-> allowed[i].username, triggers |-> allowed[i].triggers]]

\* The text handed to send_callback, as the parts it is built from.
\* `user` is not part of the text: it is the caller the callback answers.
NotFoundMessage(profiles, profile_trigger, user_id) ==
    [kind |-> "no_profile_found", user |-> user_id, trigger |-> profile_trigger,
     listing |-> ProfileListing(profiles, user_id)]

NotEnabledMessage(user_id) ==
    [kind |-> "rp_not_enabled", user |-> user_id, trigger |-> << >>, listing |-> << >>]

\* f"Failed to send impersonated message: {e}", e being the exception
FailedMessage(user_id, e) ==
    [kind |-> "failed_to_send", user |-> user_id, trigger |-> << e >>, listing |-> << >>]

NoMessage ==
    [kind |-> "none", user |-> 0, trigger |-> << >>, listing |-> << >>]

\* is_rp_enabled
is_rp_enabled(channel) == channel \in enabled_channels

(***************************************************************************)
(* Webhook cache (webhook_manager.py), the pure part.                      *)
(***************************************************************************)
\* WebhookManager._get_profile_identifier: f"RP:{profile.username}"
get_profile_identifier(p) == << "RP:", p.username >>

\* webhook.name.startswith("RP:")
StartsWithRP(name) == name[1] = "RP:"

\* WebhookModel(webhook): the webhook and the time of its last use.  `origin`
\* tells which append made the model: the one of _populateWebhooks
\* ("listing") or the one of _create_webhook ("created"); `hit` tells
\* whether created_at comes from update_timestamp on a cache hit.
WebhookModel(webhook, t, origin) ==
    [id |-> webhook.id, name |-> webhook.name, created_at |-> t,
     origin |-> origin, hit |-> FALSE]

\* WebhookModel.update_timestamp, called for a cache hit
update_timestamp(model, t) == [model EXCEPT !.created_at = t, !.hit = TRUE]

\* A faulty variant of ChannelKnown: initialize tests _is_channel_initialized, which
\* is false for a channel whose list is empty.
ChannelNotEmpty(w, channel) == channel \in DOMAIN w /\ Len(w[channel]) > 0

\* `channel.id in self.webhooks`, the test of WebhookManager.initialize
ChannelKnown(w, channel) == channel \in DOMAIN w

\* self.webhooks.setdefault(channel.id, [])
SetDefault(w, channel) ==
    IF channel \in DOMAIN w THEN w
    ELSE [c \in DOMAIN w \cup {channel} |-> IF c = channel THEN << >> ELSE w[c]]

\* self.webhooks[channel.id] = models
SetModels(w, channel, models) ==
    [c \in DOMAIN w |-> IF c = channel THEN models ELSE w[c]]

\* One insertion of the stable descending sort: x goes behind every model
\* that is at least as recent.
InsertDesc(sorted, x) ==
    LET k == Cardinality({ i \in DOMAIN sorted : sorted[i].created_at >= x.created_at })
    IN  SubSeq(sorted, 1, k) \o << x >> \o SubSeq(sorted, k + 1, Len(sorted))

RECURSIVE SortFrom(_, _, _)
SortFrom(models, i, acc) ==
    IF i > Len(models) THEN acc
    ELSE SortFrom(models, i + 1, InsertDesc(acc, models[i]))

\* WebhookManager._order_webhooks: list.sort(key=created_at, reverse=True),
\* a stable sort, newest first.
order_webhooks(models) == SortFrom(models, 1, << >>)

\* The index of the first cached model with the given name, 0 if none: the
\* for loop of get_for_profile.
FirstNamed(models, name) ==
    LET hits == { i \in DOMAIN models : models[i].name = name }
    IN  IF hits = {} THEN 0 ELSE CHOOSE i \in hits : \A j \in hits : i <= j

\* list.pop(-1)
PopLast(models) == SubSeq(models, 1, Len(models) - 1)

\* The webhooks _populateWebhooks keeps from a listing: owned by the bot and
\* named with the RP: prefix.
Populatable(listing) == { h \in listing : h.user = Me /\ StartsWithRP(h.name) }

\* A listing comes back as a list; the transport lists webhooks by id.
RECURSIVE ById(_)
ById(hs) ==
    IF hs = {} THEN << >>
    ELSE LET h == CHOOSE x \in hs : \A y \in hs : x.id <= y.id
         IN  << h >> \o ById(hs \ {h})

\* for webhook in webhooks: if ...: append(WebhookModel(webhook))
SeedModels(models, listing, t) ==
    LET kept == ById(Populatable(listing))
    IN  models \o [i \in DOMAIN kept |-> WebhookModel(kept[i], t, "listing")]

(***************************************************************************)
(* State.                                                                  *)
(***************************************************************************)
VARIABLES
    webhooks,      \* WebhookManager.webhooks: channel id -> list of models
    remote,        \* the webhooks that exist at the transport, per channel
    nextId,        \* the id the transport gives the next webhook
    now,           \* datetime.now()
    populations,   \* per channel, the listings _populateWebhooks has asked for
    history,       \* impersonation_history: the (user_id, message_id) rows
    nextMsg,       \* the id the transport gives the next message
    pc,            \* per task, the await it is suspended at
    req,           \* per task, the arguments of send_as_profile
    profile,       \* per task, the profile send_as_profile found (0: None)
    held,          \* per task, the webhook it deletes or sends with
    outcome,       \* per task, how its last send_as_profile ended
    feedback,      \* per task, what it handed to send_callback
    message_sent,  \* per task, the message send_as_profile returned (0: None)
    arg,           \* the arguments of a function that is called on its own
    result,        \* what that call returned
    message,       \* the message track_messages is called with
    user_triggers, \* impersonation_default: user id -> default trigger
    track,         \* the locals of track_messages and the await it is at
    calls,         \* the sends track_messages has asked for, with their results
    delete_asked   \* message.delete() was called for the message

cacheVars == << webhooks, remote, nextId, now, populations >>
storeVars == << history, nextMsg >>
taskVars == << pc, req, profile, held, outcome, feedback, message_sent >>
callVars == << arg, result >>
vars == << webhooks, remote, nextId, now, populations, history, nextMsg,
           pc, req, profile, held, outcome, feedback, message_sent,
           arg, result, message, user_triggers, track, calls, delete_asked >>
handlerVars == << message, user_triggers, track, calls, delete_asked >>

NoRequest == [channel |-> 0, trigger |-> << >>, user |-> 0]

\* A webhook of somebody else that carries the bot's naming prefix.
ForeignWebhook == [id |-> 0, name |-> << "RP:", "A" >>, user |-> "other"]

\* No function is called on its own.
NoCall == [kind |-> "none"]
Pending == [kind |-> "pending"]

\* WebhookManager.__init__, and the transport before the bot's first run.
ProgramInit ==
    /\ webhooks = [c \in {} |-> << >>]
    /\ remote = [c \in Channels |-> IF c = 1 THEN {ForeignWebhook} ELSE {}]
    /\ nextId = 1
    /\ now = 0
    /\ populations = [c \in Channels |-> 0]
    /\ history = {}
    /\ nextMsg = 1
    /\ pc = [t \in Tasks |-> "idle"]
    /\ req = [t \in Tasks |-> NoRequest]
    /\ profile = [t \in Tasks |-> 0]
    /\ held = [t \in Tasks |-> 0]
    /\ outcome = [t \in Tasks |-> "none"]
    /\ feedback = [t \in Tasks |-> NoMessage]
    /\ message_sent = [t \in Tasks |-> 0]

\* No message is being handled.
NoReference == [author |-> << >>, content |-> << >>, ephemeral |-> FALSE]
NoIncoming == [channel |-> 0, author |-> 0, content |-> << >>,
               attachments |-> {}, stickers |-> {}, reference |-> NoReference,
               bot |-> FALSE]
NoTrack == [pc |-> "none", verdict |-> "none", trigger_found |-> << >>,
            content_found |-> << >>, content_parts_msg |-> << >>, i |-> 0]
NoDefaults == [u \in Users |-> << >>]

NoHandler ==
    /\ message = NoIncoming
    /\ user_triggers = NoDefaults
    /\ track = NoTrack
    /\ calls = << >>
    /\ delete_asked = FALSE

Init ==
    /\ ProgramInit
    /\ arg = NoCall
    /\ result = Pending
    /\ NoHandler

RemoteIds(channel) == { h.id : h \in remote[channel] }

(***************************************************************************)
(* get_for_profile from the scan of the cache to its next await.           *)
(***************************************************************************)
\* A faulty variant of Lookup: a hit refreshes the timestamp of every model
\* of the channel.
LookupRefreshingAll(w, channel, name, t) ==
    LET models == w[channel]
        i == FirstNamed(models, name)
    IN  IF i # 0
        THEN [w |-> SetModels(w, channel,
                              [j \in DOMAIN models |-> update_timestamp(models[j], t)]),
              pc |-> "send_wait", held |-> models[i].id]
        ELSE IF Len(models) > 0 /\ Len(models) >= Limit
        THEN LET sorted == order_webhooks(models)
             IN  [w |-> SetModels(w, channel, sorted),
                  pc |-> "delete_wait", held |-> sorted[Len(sorted)].id]
        ELSE [w |-> w, pc |-> "avatar_wait", held |-> 0]

\* The cache `w` of a known channel is scanned for the name; a hit refreshes
\* the model's timestamp and the caller goes on to send with its webhook; a
\* miss at the limit sorts the list and asks the transport to delete the
\* last model's webhook; a miss below the limit goes on to _create_webhook,
\* whose first await is the avatar download.
Lookup(w, channel, name, t) ==
    LET models == w[channel]
        i == FirstNamed(models, name)
    IN  IF i # 0
        THEN [w |-> SetModels(w, channel, [models EXCEPT ![i] = update_timestamp(@, t)]),
              pc |-> "send_wait", held |-> models[i].id]
        ELSE IF Len(models) > 0 /\ Len(models) >= Limit
        THEN LET sorted == order_webhooks(models)
             IN  [w |-> SetModels(w, channel, sorted),
                  pc |-> "delete_wait", held |-> sorted[Len(sorted)].id]
        ELSE [w |-> w, pc |-> "avatar_wait", held |-> 0]

\* send_as_profile returns None after handing msg to send_callback.
Finish(t, how, msg) ==
    /\ pc' = [pc EXCEPT ![t] = "idle"]
    /\ req' = [req EXCEPT ![t] = NoRequest]
    /\ profile' = [profile EXCEPT ![t] = 0]
    /\ held' = [held EXCEPT ![t] = 0]
    /\ outcome' = [outcome EXCEPT ![t] = how]
    /\ feedback' = [feedback EXCEPT ![t] = msg]
    /\ message_sent' = [message_sent EXCEPT ![t] = 0]

\* The task goes on inside get_for_profile or send_as_profile.
Continue(t, r) ==
    /\ pc' = [pc EXCEPT ![t] = r.pc]
    /\ held' = [held EXCEPT ![t] = r.held]
    /\ UNCHANGED << req, profile, outcome, feedback, message_sent >>

(***************************************************************************)
(* send_as_profile, one action per stretch of code between two awaits.     *)
(***************************************************************************)
\* send_as_profile is called for a text channel: the enabled-channel test,
\* the registry lookup, then get_for_profile up to its first await, which is
\* the listing of the channel's webhooks on the first use of the channel.
Start(t, channel, trigger, user) ==
    /\ pc[t] = "idle"
    /\ UNCHANGED << remote, nextId, now, history, nextMsg >>
    /\ IF ~is_rp_enabled(channel)
       THEN /\ Finish(t, "not_enabled", NotEnabledMessage(user))
            /\ UNCHANGED << webhooks, populations >>
       ELSE LET p == get_profile_by_trigger_and_user(impersonation_profiles, trigger, user)
                call == [channel |-> channel, trigger |-> trigger, user |-> user]
            IN  IF p = 0
                THEN /\ Finish(t, "rejected",
                               NotFoundMessage(impersonation_profiles, trigger, user))
                     /\ UNCHANGED << webhooks, populations >>
                ELSE /\ req' = [req EXCEPT ![t] = call]
                     /\ profile' = [profile EXCEPT ![t] = p]
                     /\ outcome' = [outcome EXCEPT ![t] = "none"]
                     /\ feedback' = [feedback EXCEPT ![t] = NoMessage]
                     /\ UNCHANGED message_sent
                     /\ IF ~ChannelKnown(webhooks, channel)
                        THEN /\ webhooks' = SetDefault(webhooks, channel)
                             /\ populations' = [populations EXCEPT ![channel] = @ + 1]
                             /\ pc' = [pc EXCEPT ![t] = "list_wait"]
                             /\ UNCHANGED held
                        ELSE LET r == Lookup(webhooks, channel,
                                         get_profile_identifier(impersonation_profiles[p]), now)
                             IN  /\ webhooks' = r.w
                                 /\ pc' = [pc EXCEPT ![t] = r.pc]
                                 /\ held' = [held EXCEPT ![t] = r.held]
                                 /\ UNCHANGED populations

\* channel.webhooks() answers or raises.  The answer is appended to the
\* channel's list as it is now, then get_for_profile scans the cache.
ListDone(t, ok) ==
    /\ pc[t] = "list_wait"
    /\ UNCHANGED << remote, nextId, now, populations, history, nextMsg >>
    /\ LET channel == req[t].channel
       IN  IF ok
           THEN LET w1 == SetModels(webhooks, channel,
                                    SeedModels(webhooks[channel], remote[channel], now))
                    r == Lookup(w1, channel,
                                get_profile_identifier(impersonation_profiles[profile[t]]), now)
                IN  /\ webhooks' = r.w
                    /\ Continue(t, r)
           ELSE /\ Finish(t, "failed", FailedMessage(req[t].user, "webhooks"))
                /\ UNCHANGED webhooks

\* _delete_oldest_webhook after `await webhook.delete()`: the delete went
\* through or raised (it raises for a webhook that is gone), the exception
\* is logged, and the last model of the list as it is now is popped.  Then
\* _create_webhook starts with the avatar download.  pop on an empty list
\* raises IndexError, which send_as_profile reports.
DeleteDone(t, ok) ==
    /\ pc[t] = "delete_wait"
    /\ ok => held[t] \in RemoteIds(req[t].channel)
    /\ UNCHANGED << nextId, now, populations, history, nextMsg >>
    /\ LET channel == req[t].channel
       IN  /\ remote' = IF ok
                        THEN [remote EXCEPT ![channel] = { h \in @ : h.id # held[t] }]
                        ELSE remote
           /\ IF Len(webhooks[channel]) = 0
              THEN /\ Finish(t, "failed", FailedMessage(req[t].user, "pop from empty list"))
                   /\ UNCHANGED webhooks
              ELSE /\ webhooks' = SetModels(webhooks, channel, PopLast(webhooks[channel]))
                   /\ Continue(t, [pc |-> "avatar_wait", held |-> 0])

\* _create_webhook after the avatar download: with the bytes or, when the
\* download failed, without, it asks the transport for the webhook.
AvatarDone(t) ==
    /\ pc[t] = "avatar_wait"
    /\ Continue(t, [pc |-> "create_wait", held |-> 0])
    /\ UNCHANGED << cacheVars, storeVars >>

\* A faulty variant of CreateFailed: the model is appended before the transport is
\* asked, and stays when the transport refuses.
CreateFailedAfterAppend(t) ==
    LET channel == req[t].channel
        webhook == [id |-> nextId,
                    name |-> get_profile_identifier(impersonation_profiles[profile[t]]),
                    user |-> Me]
    IN  /\ Finish(t, "failed", FailedMessage(req[t].user, "Webhook creation failed."))
        /\ webhooks' = SetModels(webhooks, channel,
                                 Append(webhooks[channel], WebhookModel(webhook, now, "created")))
        /\ UNCHANGED << remote, nextId, now, populations >>

\* channel.create_webhook raised: _create_webhook raises "Webhook creation
\* failed." and send_as_profile reports it.
CreateFailed(t) ==
    /\ Finish(t, "failed", FailedMessage(req[t].user, "Webhook creation failed."))
    /\ UNCHANGED cacheVars

\* channel.create_webhook answered: the model is appended and send_as_profile
\* formats the content and sends it with the new webhook.
CreateSucceeded(t) ==
    LET channel == req[t].channel
        webhook == [id |-> nextId,
                    name |-> get_profile_identifier(impersonation_profiles[profile[t]]),
                    user |-> Me]
        w1 == SetDefault(webhooks, channel)
    IN  /\ nextId <= MaxHandles
        /\ remote' = [remote EXCEPT ![channel] = @ \cup {webhook}]
        /\ nextId' = nextId + 1
        /\ webhooks' = SetModels(w1, channel,
                                 Append(w1[channel], WebhookModel(webhook, now, "created")))
        /\ Continue(t, [pc |-> "send_wait", held |-> webhook.id])
        /\ UNCHANGED << now, populations >>

CreateDone(t, ok) ==
    /\ pc[t] = "create_wait"
    /\ UNCHANGED storeVars
    /\ IF ok THEN CreateSucceeded(t) ELSE CreateFailed(t)

\* webhook.send answered with the message or raised; it raises for a webhook
\* that no longer exists.  send_as_profile returns the message and its
\* caller goes on to record it.
SendDone(t, ok) ==
    /\ pc[t] = "send_wait"
    /\ ok => (held[t] \in RemoteIds(req[t].channel) /\ nextMsg <= MaxMessages)
    /\ UNCHANGED << cacheVars, history >>
    /\ IF ok
       THEN /\ pc' = [pc EXCEPT ![t] = "history_wait"]
            /\ message_sent' = [message_sent EXCEPT ![t] = nextMsg]
            /\ nextMsg' = nextMsg + 1
            /\ UNCHANGED << req, profile, held, outcome, feedback >>
       ELSE /\ Finish(t, "failed", FailedMessage(req[t].user, "send"))
            /\ UNCHANGED nextMsg

\* A faulty variant of HistoryAdd: the message is not recorded.
HistoryAddOfNothing(t) ==
    /\ pc[t] = "history_wait"
    /\ Finish(t, "sent", NoMessage)
    /\ UNCHANGED << cacheVars, history, nextMsg >>

\* if message_sent: await impersonation_history.add(user.id, message_sent.id)
HistoryAdd(t) ==
    /\ pc[t] = "history_wait"
    /\ history' = history \cup { << req[t].user, message_sent[t] >> }
    /\ Finish(t, "sent", NoMessage)
    /\ UNCHANGED << cacheVars, nextMsg >>

(***************************************************************************)
(* The environment.                                                        *)
(***************************************************************************)
\* The process is started again: webhook_manager = WebhookManager() is an
\* empty cache, no task survives, the transport and the database keep what
\* they have.
Restart ==
    /\ webhooks' = [c \in {} |-> << >>]
    /\ populations' = [c \in Channels |-> 0]
    /\ pc' = [t \in Tasks |-> "idle"]
    /\ req' = [t \in Tasks |-> NoRequest]
    /\ profile' = [t \in Tasks |-> 0]
    /\ held' = [t \in Tasks |-> 0]
    /\ outcome' = [t \in Tasks |-> "none"]
    /\ feedback' = [t \in Tasks |-> NoMessage]
    /\ message_sent' = [t \in Tasks |-> 0]
    /\ UNCHANGED << remote, nextId, now, history, nextMsg >>

\* Somebody else deletes one of the bot's webhooks at the transport.
ExternalDelete(channel, id) ==
    /\ \E h \in remote[channel] : h.id = id /\ h.user = Me
    /\ remote' = [remote EXCEPT ![channel] = { h \in @ : h.id # id }]
    /\ UNCHANGED << webhooks, nextId, now, populations, storeVars, taskVars >>

\* Time passes.
Tick ==
    /\ now < MaxTime
    /\ now' = now + 1
    /\ UNCHANGED << webhooks, remote, nextId, populations, storeVars, taskVars >>

TaskStep(t) ==
    \/ \E ok \in BOOLEAN : ListDone(t, ok)
    \/ \E ok \in BOOLEAN : DeleteDone(t, ok)
    \/ AvatarDone(t)
    \/ \E ok \in BOOLEAN : CreateDone(t, ok)
    \/ \E ok \in BOOLEAN : SendDone(t, ok)
    \/ HistoryAdd(t)

\* A coroutine that starts takes the first task that is free.
FirstFree(t) == pc[t] = "idle" /\ \A u \in Tasks : u < t => pc[u] # "idle"

\* The requests of the concurrent model: the enabled channel, a user every
\* profile admits, a trigger for each profile.
CacheTriggers == { <<"a">>, <<"B">>, <<"c">> }

\* Concurrent coroutines on one channel, across restarts of the process.
Next ==
    /\ UNCHANGED << callVars, handlerVars >>
    /\ \/ \E t \in Tasks, trigger \in CacheTriggers : FirstFree(t) /\ Start(t, 1, trigger, 1)
       \/ \E t \in Tasks : TaskStep(t)
       \/ Restart
       \/ Tick

Spec == Init /\ [][Next]_vars

\* The same coroutines within one run of the process, while the clock
\* reading stays the same.
RaceNext ==
    /\ UNCHANGED << callVars, handlerVars >>
    /\ \/ \E t \in Tasks, trigger \in CacheTriggers : FirstFree(t) /\ Start(t, 1, trigger, 1)
       \/ \E t \in Tasks : TaskStep(t)

RaceSpec == Init /\ [][RaceNext]_vars

\* One coroutine at a time, every request, across restarts of the process.
SeqNext ==
    /\ UNCHANGED << callVars, handlerVars >>
    /\ \/ \E channel \in Channels, trigger \in TriggerInputs, user \in Users :
             Start(1, channel, trigger, user)
       \/ TaskStep(1)
       \/ Restart

SeqSpec == Init /\ [][SeqNext]_vars

\* One coroutine at a time in the enabled channel, while time passes and
\* across restarts of the process.
HitNext ==
    /\ UNCHANGED << callVars, handlerVars >>
    /\ \/ \E trigger \in CacheTriggers : Start(1, 1, trigger, 1)
       \/ TaskStep(1)
       \/ Restart
       \/ Tick

HitSpec == Init /\ [][HitNext]_vars

\* One coroutine at a time and a transport whose webhooks other people
\* delete.
DeletionNext ==
    \/ SeqNext
    \/ /\ UNCHANGED << callVars, handlerVars >>
       /\ \E channel \in Channels, id \in 1..MaxHandles : ExternalDelete(channel, id)

\* The event loop resumes a coroutine whose await has an answer.
FairDeletionSpec ==
    Init /\ [][DeletionNext]_vars /\ WF_vars(TaskStep(1) /\ UNCHANGED << callVars, handlerVars >>)

(***************************************************************************)
(* Message tracker (message_tracker.py), the pure part.                    *)
(***************************************************************************)
\* The strings of at most n characters of an alphabet.
Strings(alphabet, n) == UNION { [1..k -> alphabet] : k \in 0..n }

\* "".join(parts)
RECURSIVE Concat(_)
Concat(parts) ==
    IF parts = << >> THEN << >> ELSE Head(parts) \o Concat(Tail(parts))

\* The end of the first line of a non-empty string: the position of its
\* first line break, or its length.
LineEnd(s) ==
    LET breaks == { i \in DOMAIN s : s[i] = "\n" }
    IN  IF breaks = {} THEN Len(s) ELSE CHOOSE i \in breaks : \A j \in breaks : i <= j

\* A faulty variant of SplitLines: str.splitlines() without keepends.
RECURSIVE SplitLinesDroppingEnds(_)
SplitLinesDroppingEnds(s) ==
    IF s = << >> THEN << >>
    ELSE LET k == LineEnd(s)
             line == IF s[k] = "\n" THEN SubSeq(s, 1, k - 1) ELSE SubSeq(s, 1, k)
         IN  << line >> \o SplitLinesDroppingEnds(SubSeq(s, k + 1, Len(s)))

\* str.splitlines(keepends=True)
RECURSIVE SplitLines(_)
SplitLines(s) ==
    IF s = << >> THEN << >>
    ELSE LET k == LineEnd(s)
         IN  << SubSeq(s, 1, k) >> \o SplitLines(SubSeq(s, k + 1, Len(s)))

\* A faulty variant of Slices: the first limit characters, and the rest of
\* the line in one piece.
SlicesHeadAndRest(line, limit) ==
    << SubSeq(line, 1, limit), SubSeq(line, limit + 1, Len(line)) >>

\* [line[i:i + limit] for i in range(0, len(line), limit)]
Slices(line, limit) ==
    LET n == (Len(line) + limit - 1) \div limit
    IN  [j \in 1..n |->
            SubSeq(line, (j - 1) * limit + 1,
                   IF j * limit < Len(line) THEN j * limit ELSE Len(line))]

\* The for loop of _split_message from its i-th line on, and the append of
\* the last chunk.
RECURSIVE SplitLoop(_, _, _, _, _)
SplitLoop(lines, i, parts, chunk, limit) ==
    IF i > Len(lines)
    THEN IF chunk # << >> THEN Append(parts, chunk) ELSE parts
    ELSE LET line == lines[i]
         IN  IF Len(chunk) + Len(line) > limit
             THEN LET flushed == IF chunk # << >> THEN Append(parts, chunk) ELSE parts
                  IN  IF Len(line) > limit
                      THEN SplitLoop(lines, i + 1, flushed \o Slices(line, limit), << >>, limit)
                      ELSE SplitLoop(lines, i + 1, flushed, line, limit)
             ELSE SplitLoop(lines, i + 1, parts, chunk \o line, limit)

\* ImpersonationMessageTracker._split_message
split_message(text, limit) ==
    IF Len(text) <= limit THEN << text >>
    ELSE SplitLoop(SplitLines(text), 1, << >>, << >>, limit)

\* The characters of the class [a-z0-9-_] under re.IGNORECASE, as far as the
\* model's alphabet has them.
IsWordChar(ch) ==
    ch \in { "a", "b", "c", "e", "h", "i", "n", "o", "p", "s", "t", "x",
             "A", "B", "C", "O", "S", "X", "1", "8", "-", "_" }

\* The characters \s matches and str.strip() removes.
IsSpace(ch) == ch \in { " ", "\n" }

\* str.upper() on the characters of the model's alphabet.
UpperChar(ch) ==
    CASE ch = "a" -> "A"
      [] ch = "b" -> "B"
      [] ch = "c" -> "C"
      [] ch = "e" -> "E"
      [] ch = "h" -> "H"
      [] ch = "i" -> "I"
      [] ch = "n" -> "N"
      [] ch = "o" -> "O"
      [] ch = "p" -> "P"
      [] ch = "s" -> "S"
      [] ch = "t" -> "T"
      [] ch = "x" -> "X"
      [] OTHER -> ch

Upper(s) == [i \in DOMAIN s |-> UpperChar(s[i])]

\* str.strip()
Strip(s) ==
    LET kept == { i \in DOMAIN s : ~IsSpace(s[i]) }
    IN  IF kept = {} THEN << >>
        ELSE SubSeq(s, CHOOSE i \in kept : \A j \in kept : i <= j,
                       CHOOSE i \in kept : \A j \in kept : i >= j)

\* str.startswith
StartsWith(s, prefix) ==
    Len(s) >= Len(prefix) /\ SubSeq(s, 1, Len(prefix)) = prefix

\* The length of the longest run of characters of a class that starts
\* behind position `from` of s.
Run(s, from, InClass(_)) ==
    CHOOSE n \in 0..(Len(s) - from) :
        /\ \A i \in 1..n : InClass(s[from + i])
        /\ (from + n = Len(s) \/ ~InClass(s[from + n + 1]))

\* A faulty variant of trigger_match: no white space between the word and
\* the colon.
trigger_match_without_gap(s) ==
    LET lead == Run(s, 0, IsSpace)
        word == Run(s, lead, IsWordChar)
        colon == lead + word + 1
    IN  IF word > 0 /\ colon <= Len(s) /\ s[colon] = ":"
        THEN [matched |-> TRUE,
              group1 |-> SubSeq(s, lead + 1, lead + word),
              group2 |-> SubSeq(s, colon + 1, Len(s))]
        ELSE [matched |-> FALSE, group1 |-> << >>, group2 |-> << >>]

\* re.fullmatch(r'\s*([a-z0-9-_]+?)\s*:(.*)', s, re.IGNORECASE | re.DOTALL):
\* white space, a word, white space, a colon, anything.  The word cannot end
\* before a word character, so the lazy group is the whole run.
trigger_match(s) ==
    LET lead == Run(s, 0, IsSpace)
        word == Run(s, lead, IsWordChar)
        gap == Run(s, lead + word, IsSpace)
        colon == lead + word + gap + 1
    IN  IF word > 0 /\ colon <= Len(s) /\ s[colon] = ":"
        THEN [matched |-> TRUE,
              group1 |-> SubSeq(s, lead + 1, lead + word),
              group2 |-> SubSeq(s, colon + 1, Len(s))]
        ELSE [matched |-> FALSE, group1 |-> << >>, group2 |-> << >>]

\* 'http' and 'scene', the two words track_messages tests the trigger for
Http == << "h", "t", "t", "p" >>
Scene == << "s", "c", "e", "n", "e" >>

\* A faulty variant of Found: the trigger is not tested for 'http'.
FoundUnguarded(content) ==
    LET content_origs == Strip(content)
        m == trigger_match(content_origs)
    IN  [trigger_found |-> IF m.matched THEN Strip(m.group1) ELSE << >>,
         content_found |-> IF m.matched THEN Strip(m.group2) ELSE content_origs,
         content_origs |-> content_origs]

\* track_messages from message.content to the test for a scene: the
\* stripped content, the match, and the guard against a URL.  None is the
\* empty string, which is as false as None in every test of the code.
Found(content) ==
    LET content_origs == Strip(content)
        m == trigger_match(content_origs)
        trigger_found == IF m.matched THEN Strip(m.group1) ELSE << >>
        content_found == IF m.matched THEN Strip(m.group2) ELSE content_origs
    IN  IF trigger_found # << >> /\ StartsWith(trigger_found, Http)
        THEN [trigger_found |-> << >>, content_found |-> content_origs,
              content_origs |-> content_origs]
        ELSE [trigger_found |-> trigger_found, content_found |-> content_found,
              content_origs |-> content_origs]

(***************************************************************************)
(* convert_emojis_and_attachments_for_webhook (helpers.py).  env is what   *)
(* the function reads besides its text: the emojis of the guilds of the    *)
(* bot in the order of the scan, the external_emoji_map, and what the      *)
(* fetch of each URL of the map does: "ok" (status 200, the file is        *)
(* built), "status" (another status), or "raise" (session.get, resp.read   *)
(* or File raises).                                                        *)
(***************************************************************************)
\* [a-zA-Z0-9_]
IsEmojiNameChar(ch) == IsWordChar(ch) /\ ch # "-"

\* \d
IsDigit(ch) == ch \in { "0", "1", "2", "3", "4", "5", "6", "7", "8", "9" }

\* EMOJI_PATTERN, r"(?<!<):([a-zA-Z0-9_]+):(?!\d+>)", at position i of the
\* text: the length of the match, 0 when there is none.  The name is the
\* whole run of name characters, since a colon has to follow it, and the
\* digits of the lookahead are the whole run of digits, since '>' has to
\* follow them.
EmojiMatch(text, i) ==
    LET n == Run(text, i, IsEmojiNameChar)
        close == i + n + 1
        d == IF close <= Len(text) THEN Run(text, close, IsDigit) ELSE 0
    IN  IF /\ text[i] = ":"
           /\ (i = 1 \/ text[i - 1] # "<")
           /\ n > 0
           /\ close <= Len(text) /\ text[close] = ":"
           /\ ~(d > 0 /\ close + d + 1 <= Len(text) /\ text[close + d + 1] = ">")
        THEN n + 2 ELSE 0

\* The first emoji of the guilds with the name, 0 when there is none.
FirstEmoji(emojis, name) ==
    IF \E k \in DOMAIN emojis : emojis[k].name = name
    THEN CHOOSE k \in DOMAIN emojis :
            /\ emojis[k].name = name
            /\ \A j \in 1..(k - 1) : emojis[j].name # name
    ELSE 0

\* resolve(match): the emoji of a guild, or the image of the map, or the
\* text of the match; the fetch is in no try, so what it raises leaves
\* resolve.
resolve(name, env) ==
    LET k == FirstEmoji(env.emojis, name)
        verbatim == << ":" >> \o name \o << ":" >>
        filename == name \o << ".", "p", "n", "g" >>
    IN  IF k # 0
        THEN [raised |-> FALSE,
              text |-> (IF env.emojis[k].animated THEN << "<", "a", ":" >> ELSE << "<", ":" >>)
                       \o name \o << ":" >> \o env.emojis[k].id \o << ">" >>,
              files |-> << >>]
        ELSE IF name \in DOMAIN env.external_emoji_map
        THEN CASE env.fetch[env.external_emoji_map[name]] = "ok" ->
                    [raised |-> FALSE,
                     text |-> << "[" >> \o name \o << "]", "(" >> \o filename \o << ")" >>,
                     files |-> << filename >>]
               [] env.fetch[env.external_emoji_map[name]] = "status" ->
                    [raised |-> FALSE, text |-> verbatim, files |-> << >>]
               [] OTHER ->
                    [raised |-> TRUE, text |-> << >>, files |-> << >>]
        ELSE [raised |-> FALSE, text |-> verbatim, files |-> << >>]

\* The loop over EMOJI_PATTERN.finditer(text) from position i on, with
\* the text converted and the files collected so far.
RECURSIVE ConvertFrom(_, _, _, _, _)
ConvertFrom(text, i, converted, files, env) ==
    IF i > Len(text)
    THEN [raised |-> FALSE, text |-> converted, files |-> files]
    ELSE LET m == EmojiMatch(text, i)
         IN  IF m = 0
             THEN ConvertFrom(text, i + 1, Append(converted, text[i]), files, env)
             ELSE LET r == resolve(SubSeq(text, i + 1, i + m - 2), env)
                  IN  IF r.raised
                      THEN [raised |-> TRUE, text |-> << >>, files |-> << >>]
                      ELSE ConvertFrom(text, i + m, converted \o r.text,
                                       files \o r.files, env)

\* convert_emojis_and_attachments_for_webhook(bot, text, attachments,
\* external_emoji_map)
convert_emojis_and_attachments_for_webhook(text, attachments, env) ==
    ConvertFrom(text, 1, << >>, attachments, env)

\* [:200], the characters of the quoted message that are kept
QuoteLength == 200

\* str.replace("\n", " ")
Flatten(text) == [i \in DOMAIN text |-> IF text[i] = "\n" THEN " " ELSE text[i]]

\* s[:n]
Take(text, n) == SubSeq(text, 1, IF Len(text) < n THEN Len(text) ELSE n)

\* What send_as_profile passes to the conversion: no external_emoji_map,
\* and the emojis of the guilds of the bot.
BotEnv ==
    [emojis |-> << [name |-> << "e" >>, id |-> << "7" >>, animated |-> FALSE] >>,
     external_emoji_map |-> [n \in {} |-> "none"],
     fetch |-> [u \in {} |-> "none"]]

\* format_reply(content, reply_msg): the quote of the message replied to
\* and the content as it is, or, without such a message or when it is
\* ephemeral, the content with its emojis converted.
format_reply(content, reply_msg) ==
    IF reply_msg # NoReference /\ ~reply_msg.ephemeral
    THEN [raised |-> FALSE,
          text |-> << ">", " " >> \o reply_msg.author \o << ":", " " >>
                   \o Take(Flatten(reply_msg.content), QuoteLength)
                   \o << "\n" >> \o content,
          files |-> << >>]
    ELSE convert_emojis_and_attachments_for_webhook(content, << >>, BotEnv)

(***************************************************************************)
(* The stickers of send_as_profile (helpers.py).  A sticker of the model   *)
(* is its name, its format_type, whether it has a url, and what the fetch  *)
(* of its data and the conversion of a Lottie animation do: "ok" or        *)
(* "raise".                                                                *)
(***************************************************************************)
\* fetch_sticker_as_file_safe(sticker, guild): the file, None (<< >>) for
\* a Lottie sticker without url and for a format the function does not
\* know, or the exception of the fetch or of the conversion.
fetch_sticker_as_file_safe(sticker) ==
    IF sticker.format_type \in {1, 3}
    THEN IF sticker.fetch = "ok"
         THEN [raised |-> FALSE, file |-> << sticker.name \o << ".", "p", "n", "g" >> >>]
         ELSE [raised |-> TRUE, file |-> << >>]
    ELSE IF sticker.format_type = 2
    THEN IF ~sticker.has_url
         THEN [raised |-> FALSE, file |-> << >>]
         ELSE IF sticker.fetch = "ok" /\ sticker.convert = "ok"
         THEN [raised |-> FALSE, file |-> << sticker.name \o << ".", "g", "i", "f" >> >>]
         ELSE [raised |-> TRUE, file |-> << >>]
    ELSE [raised |-> FALSE, file |-> << >>]

\* A faulty variant of StickerFiles: the loop has no try, and the first
\* sticker that raises ends it with the files it has so far.
RECURSIVE StickerFilesUntilFailure(_)
StickerFilesUntilFailure(stickers) ==
    IF stickers = << >> THEN << >>
    ELSE LET r == fetch_sticker_as_file_safe(Head(stickers))
         IN  IF r.raised THEN << >>
             ELSE r.file \o StickerFilesUntilFailure(Tail(stickers))

\* for sticker in stickers or []: try: ... files_to_send.append(...)
\* except Exception: logger.warning(...)
RECURSIVE StickerFiles(_)
StickerFiles(stickers) ==
    IF stickers = << >> THEN << >>
    ELSE LET r == fetch_sticker_as_file_safe(Head(stickers))
         IN  (IF r.raised THEN << >> ELSE r.file) \o StickerFiles(Tail(stickers))

\* send_as_profile from format_reply to webhook.send: what is handed to
\* webhook.send, or the exception of the conversion.
SendArguments(content, reply_to, attachments, stickers) ==
    LET f == format_reply(content, reply_to)
    IN  IF f.raised
        THEN [raised |-> TRUE, content |-> << >>, files |-> << >>]
        ELSE [raised |-> FALSE, content |-> f.text,
              files |-> attachments \o (f.files \o StickerFiles(stickers))]

(***************************************************************************)
(* A function called on its own, on every argument of a bounded set.       *)
(***************************************************************************)
\* The stickers of the model: a PNG that is fetched and one whose fetch
\* raises, a Lottie animation that is converted, one whose conversion
\* raises and one without url, and a sticker of another format.
StickerKinds ==
    { [name |-> << "p" >>, format_type |-> 1, has_url |-> TRUE, fetch |-> "ok", convert |-> "ok"],
      [name |-> << "q" >>, format_type |-> 3, has_url |-> TRUE, fetch |-> "raise", convert |-> "ok"],
      [name |-> << "l" >>, format_type |-> 2, has_url |-> TRUE, fetch |-> "ok", convert |-> "ok"],
      [name |-> << "m" >>, format_type |-> 2, has_url |-> TRUE, fetch |-> "ok", convert |-> "raise"],
      [name |-> << "n" >>, format_type |-> 2, has_url |-> FALSE, fetch |-> "ok", convert |-> "ok"],
      [name |-> << "g" >>, format_type |-> 4, has_url |-> TRUE, fetch |-> "ok", convert |-> "ok"] }

\* The parts handed to send_as_profile with their attachments and stickers.
StickerCalls ==
    { [kind |-> "stickers", content |-> c, attachments |-> a, stickers |-> st] :
        c \in { << >>, << "h", "i" >> },
        a \in { << >>, << << "f", "i", "l", "e" >> >> },
        st \in Strings(StickerKinds, MaxStickers) }

\* The pieces the texts handed to the conversion are made of: an emoji of
\* the bot, two names of the map, an emoji already converted, a lone colon.
EmojiPieces ==
    { << "x" >>, << ":", "e", ":" >>, << ":", "a", ":" >>, << ":", "b", ":" >>,
      << "<", ":", "e", ":", "1", ">" >>, << ":" >> }

\* What the conversion reads besides the text.
EmojiEnvs ==
    { [emojis |-> es, external_emoji_map |-> mp, fetch |-> f] :
        es \in { << >>, << [name |-> << "e" >>, id |-> << "7" >>, animated |-> FALSE],
                           [name |-> << "e" >>, id |-> << "8" >>, animated |-> TRUE] >> },
        mp \in { [n \in {} |-> "none"],
                 [n \in { << "a" >>, << "b" >> } |-> IF n = << "a" >> THEN "url1" ELSE "url2"] },
        f \in [{ "url1", "url2" } -> { "ok", "status", "raise" }] }

\* The texts handed to convert_emojis_and_attachments_for_webhook.
EnrichCalls ==
    { [kind |-> "enrich", text |-> Concat(ps), attachments |-> << >>, env |-> e] :
        ps \in Strings(EmojiPieces, MaxPieces), e \in EmojiEnvs }

\* The triggers handed to get_profile_by_trigger_and_user.
FindCalls ==
    { [kind |-> "find", profile_trigger |-> tr, user |-> u] :
        tr \in Strings({"a", "A", "b", "B", "o", "O", "c", "x"}, MaxTrigger) \ { << >> },
        u \in Users }

\* limit: int = 1999, the default of _split_message
DefaultLimit == 1999

\* The texts and limits handed to _split_message, and 3000 times the same
\* character with the default limit.
SplitCalls ==
    { [kind |-> "split", message |-> m, limit |-> l] :
        m \in Strings({"x", "\n"}, MaxLen), l \in 1..MaxLimit }
    \cup { [kind |-> "split", message |-> [i \in 1..3000 |-> "x"], limit |-> DefaultLimit] }

\* A list as the set of its elements.
Range(s) == { s[i] : i \in DOMAIN s }

\* The loop of preprocess_profiles from profile i on: all_triggers holds the
\* triggers of the profiles before it.  The triggers are compared as the
\* strings they are.
RECURSIVE PreprocessFrom(_, _, _)
PreprocessFrom(v, i, all_triggers) ==
    IF i > Len(v)
    THEN [raised |-> FALSE, profiles |-> v]
    ELSE LET triggers_list == v[i].triggers
             duplicates == Range(triggers_list) \cap all_triggers
         IN  IF duplicates # {}
             THEN [raised |-> TRUE, profiles |-> << >>]
             ELSE PreprocessFrom(v, i + 1, all_triggers \cup Range(triggers_list))

\* SettingsManager.preprocess_profiles, the validator of
\* impersonation_profiles: ValueError, or the list for the registry.
preprocess_profiles(v) == PreprocessFrom(v, 1, {})

\* The configurations handed to the validator: up to MaxProfiles profiles,
\* every user admitted, each with up to MaxTriggers of these triggers.
ConfigTriggers == { <<"a">>, <<"A">>, <<"b">> }

ConfigProfiles ==
    { [triggers |-> ts, username |-> "P", restricted |-> FALSE, restricted_users |-> {}] :
        ts \in Strings(ConfigTriggers, MaxTriggers) }

LoadCalls ==
    { [kind |-> "load", profiles |-> v] : v \in Strings(ConfigProfiles, MaxProfiles) }

\* The texts webhook.send is given for a content: track_messages splits it
\* and hands each part to send_as_profile, /rp hands over the whole message;
\* neither passes reply_to; send_as_profile sends what format_reply returns.
SentTexts(path, content) ==
    LET parts == IF path = "listener" THEN split_message(content, ChunkLimit)
                 ELSE << content >>
    IN  [i \in DOMAIN parts |-> format_reply(parts[i], NoReference).text]

\* The contents the two paths are given: plain text with line ends, and
\* text with emoji names.
TextCalls ==
    { [kind |-> "texts", path |-> path, content |-> c] :
        path \in {"listener", "command"},
        c \in Strings({"x", "\n"}, MaxLen)
                 \cup { Concat(ps) : ps \in Strings(EmojiPieces, MaxPieces) } }

\* What the called function returns.
Return(call) ==
    CASE call.kind = "find" ->
            [kind |-> "find",
             profile |-> get_profile_by_trigger_and_user(impersonation_profiles,
                                                         call.profile_trigger, call.user)]
      [] call.kind = "split" ->
            [kind |-> "split", parts |-> split_message(call.message, call.limit)]
      [] call.kind = "stickers" ->
            LET r == SendArguments(call.content, NoReference, call.attachments,
                                   call.stickers)
            IN  [kind |-> "stickers", raised |-> r.raised, content |-> r.content,
                 files |-> r.files]
      [] call.kind = "load" ->
            LET r == preprocess_profiles(call.profiles)
            IN  [kind |-> "load", raised |-> r.raised, profiles |-> r.profiles]
      [] call.kind = "texts" ->
            [kind |-> "texts", texts |-> SentTexts(call.path, call.content)]
      [] call.kind = "enrich" ->
            LET r == convert_emojis_and_attachments_for_webhook(
                        call.text, call.attachments, call.env)
            IN  [kind |-> "enrich", raised |-> r.raised, text |-> r.text, files |-> r.files]

\* The call returns.
Call ==
    /\ result = Pending
    /\ arg # NoCall
    /\ result' = Return(arg)
    /\ UNCHANGED << arg, cacheVars, storeVars, taskVars, handlerVars >>

FindInit == ProgramInit /\ NoHandler /\ arg \in FindCalls /\ result = Pending

FindSpec == FindInit /\ [][Call]_vars

SplitInit == ProgramInit /\ NoHandler /\ arg \in SplitCalls /\ result = Pending

SplitSpec == SplitInit /\ [][Call]_vars

EnrichInit == ProgramInit /\ NoHandler /\ arg \in EnrichCalls /\ result = Pending

EnrichSpec == EnrichInit /\ [][Call]_vars

StickerInit == ProgramInit /\ NoHandler /\ arg \in StickerCalls /\ result = Pending

StickerSpec == StickerInit /\ [][Call]_vars

LoadInit == ProgramInit /\ NoHandler /\ arg \in LoadCalls /\ result = Pending

LoadSpec == LoadInit /\ [][Call]_vars

TextInit == ProgramInit /\ NoHandler /\ arg \in TextCalls /\ result = Pending

TextSpec == TextInit /\ [][Call]_vars

(***************************************************************************)
(* send_as_profile seen from its caller (helpers.py): the call with the    *)
(* channel object it was given, and what comes back.                       *)
(***************************************************************************)
\* The classes of channel object a caller can hand over: /rp passes
\* interaction.channel, which is a thread when the command is used in one.
ChannelTypes == {"text", "thread"}

DispatchCalls ==
    { [kind |-> "dispatch", channel_type |-> ty, channel |-> channel,
       trigger |-> trigger, user |-> user] :
         ty \in ChannelTypes, channel \in Channels,
         trigger \in TriggerInputs, user \in Users }

\* What the caller has in hand once the coroutine is over.
Returned(t_outcome, sent) ==
    [kind |-> "dispatch", raised |-> FALSE, outcome |-> t_outcome, message_sent |-> sent]
Raised == [kind |-> "dispatch", raised |-> TRUE, outcome |-> "none", message_sent |-> 0]
Running == [kind |-> "running"]

\* A faulty variant of EntryCheck: every channel object passes.
EntryCheckAnyChannel(call) == TRUE

\* isinstance(channel, discord.TextChannel), the first statement.
EntryCheck(call) == call.channel_type = "text"

\* The caller awaits send_as_profile: the isinstance test raises ValueError,
\* or the coroutine runs to its first await.
Dispatch(call) ==
    /\ result.kind # "running"
    /\ pc[1] = "idle"
    /\ arg' = call
    /\ UNCHANGED handlerVars
    /\ IF ~EntryCheck(call)
       THEN /\ result' = Raised
            /\ UNCHANGED << cacheVars, storeVars, taskVars >>
       ELSE /\ Start(1, call.channel, call.trigger, call.user)
            /\ result' = IF pc'[1] = "idle"
                         THEN Returned(outcome'[1], message_sent'[1])
                         ELSE Running

\* The coroutine goes on from one await to the next, to its return.
DispatchStep ==
    /\ result.kind = "running"
    /\ TaskStep(1)
    /\ result' = IF pc'[1] = "idle"
                 THEN Returned(outcome'[1], message_sent'[1])
                 ELSE Running
    /\ UNCHANGED << arg, handlerVars >>

DispatchInit == ProgramInit /\ NoHandler /\ arg = NoCall /\ result = Pending

DispatchNext == (\E call \in DispatchCalls : Dispatch(call)) \/ DispatchStep

DispatchSpec == DispatchInit /\ [][DispatchNext]_vars

(***************************************************************************)
(* One call at a time in the enabled channel, with what the caller could   *)
(* see of the cache and of the transport when it made the call.            *)
(***************************************************************************)
\* send_as_profile is awaited for a text channel; arg keeps the cache and
\* the transport's webhooks as they are at the call.
Observed(trigger) ==
    /\ result.kind # "running"
    /\ pc[1] = "idle"
    /\ arg' = [kind |-> "observed", trigger |-> trigger,
               webhooks |-> webhooks, remote |-> remote]
    /\ UNCHANGED handlerVars
    /\ Start(1, 1, trigger, 1)
    /\ result' = IF pc'[1] = "idle"
                 THEN Returned(outcome'[1], message_sent'[1])
                 ELSE Running

ObservedNext == (\E trigger \in CacheTriggers : Observed(trigger)) \/ DispatchStep

ObservedSpec == DispatchInit /\ [][ObservedNext]_vars

(***************************************************************************)
(* on_raw_reaction_add (reacted_tracker.py): a reaction added to a message *)
(* of a channel, and what the handler does to the message.                 *)
(***************************************************************************)
\* REMOVAL_REACTIONS_UNICODE and REMOVAL_REACTIONS_CUSTOM_IDS.  A name is
\* written by its code points: the first string of the set in the source
\* is the two characters U+00E2 U+0152, not the cross mark U+274C.
REMOVAL_REACTIONS_UNICODE == { "U+00E2 U+0152", ":x:" }
REMOVAL_REACTIONS_CUSTOM_IDS == {}

\* The emojis a payload can carry: a unicode emoji has no id (0) and any
\* name, a custom emoji has an id and a name.
Emojis ==
    { [unicode |-> TRUE, name |-> "U+00E2 U+0152", id |-> 0],
      [unicode |-> TRUE, name |-> ":x:", id |-> 0],
      [unicode |-> TRUE, name |-> "U+274C", id |-> 0],
      [unicode |-> FALSE, name |-> ":x:", id |-> 5] }

\* self.bot.user.id
BotUsers == {0}

\* The payloads of the event: who reacted, where, on which message (0 is
\* a message that no call of send_as_profile has sent), with what, and
\* whether channel.fetch_message finds the message.
Payloads ==
    { [kind |-> "reaction", user_id |-> u, channel_id |-> c, message_id |-> m,
       emoji |-> e, fetched |-> f] :
         u \in Users \cup BotUsers, c \in Channels, m \in 0..MaxMessages,
         e \in Emojis, f \in BOOLEAN }

\* A faulty variant of has: a row of any user for the message counts.
has_of_anyone(rows, user_id, message_id) ==
    \E row \in rows : row[2] = message_id

\* ImpersonationHistoryRepo.has: a row (user_id, message_id) exists.
has(rows, user_id, message_id) == << user_id, message_id >> \in rows

\* emoji.is_unicode_emoji() and emoji.name in ..., or emoji.id in ...
removal_emoji(emoji) ==
    \/ emoji.unicode /\ emoji.name \in REMOVAL_REACTIONS_UNICODE
    \/ emoji.id \in REMOVAL_REACTIONS_CUSTOM_IDS

\* What the handler does for the payload with the rows of the history as
\* they are when it asks: nothing, an exception out of fetch_message,
\* message.remove_reaction, or message.delete.
Reacted(payload, rows) ==
    IF payload.user_id \in BotUsers THEN "none"
    ELSE IF ~is_rp_enabled(payload.channel_id) THEN "none"
    ELSE IF ~removal_emoji(payload.emoji) THEN "none"
    ELSE IF ~payload.fetched THEN "raised"
    ELSE IF ~has(rows, payload.user_id, payload.message_id) THEN "reaction_removed"
    ELSE "deleted"

\* The event arrives for a message that exists, at any moment of a call of
\* send_as_profile, and the handler runs.
on_raw_reaction_add(payload) ==
    /\ payload.message_id < nextMsg
    /\ arg' = payload
    /\ result' = [kind |-> "reaction", effect |-> Reacted(payload, history)]
    /\ UNCHANGED << cacheVars, storeVars, taskVars, handlerVars >>

\* Messages are sent as the first profile for either user in the enabled
\* channel, and reactions arrive.
ReactNext ==
    \/ /\ \E user \in Users : Start(1, 1, << "a" >>, user)
       /\ UNCHANGED << callVars, handlerVars >>
    \/ /\ TaskStep(1)
       /\ UNCHANGED << callVars, handlerVars >>
    \/ \E payload \in Payloads : on_raw_reaction_add(payload)

ReactSpec == Init /\ [][ReactNext]_vars

(***************************************************************************)
(* track_messages (message_tracker.py): one message from its arrival to    *)
(* the deletion of the original, one action per stretch between awaits.    *)
(***************************************************************************)
\* The contents users type in the model: white space, a word, white space,
\* a colon and a rest, each of them present or not.
Leads == { << >>, << " ", " " >> }
Words == { << >>, << "a" >>, << "B" >>, << "x", "-", "_", "1" >>,
           Http, Http \o << "s" >>, Scene, << "S", "c", "e", "n", "e" >> }
Gaps == { << >>, << " " >> }
Colons == { << >>, << ":" >> }
Rests == { << >>, << " " >>, << " ", "h", "i", " " >>,
           << "/", "/", "a", ":", "8" >>,
           << "x", "x", "\n", "x", "x", "x", "x", "x" >> }

Contents ==
    { l \o w \o g \o c \o r :
        l \in Leads, w \in Words, g \in Gaps, c \in Colons, r \in Rests }

\* message.reference: none, a message of two lines, an ephemeral one.
References ==
    { NoReference,
      [author |-> << "A", "n", "n" >>, content |-> << "y", "\n", "y" >>, ephemeral |-> FALSE],
      [author |-> << "A", "n", "n" >>, content |-> << "y", "\n", "y" >>, ephemeral |-> TRUE] }

\* The messages that users write.
Messages ==
    { [channel |-> ch, author |-> u, content |-> c, attachments |-> a, stickers |-> k,
       reference |-> ref, bot |-> FALSE] :
        ch \in Channels, u \in Users, c \in Contents,
        a \in { {}, {"file"} }, k \in { {}, {"sticker"} }, ref \in References }

\* The messages that are not replies.
PlainMessages == { m \in Messages : m.reference = NoReference }

\* The messages of the enabled channel that name the trigger of a profile
\* before the colon, without stickers.
LoopMessages ==
    { m \in Messages :
        /\ m.channel = 1 /\ m.stickers = {}
        /\ \E w \in { <<"a">>, <<"B">> }, r \in Rests : m.content = w \o <<":">> \o r }

\* Messages in the form "trigger: text" of either channel, written by a
\* user or by a bot; what a webhook of the bot sends has a bot as its
\* author.
EchoMessages ==
    { [m EXCEPT !.channel = ch, !.bot = b] :
        m \in { x \in LoopMessages : x.reference = NoReference },
        ch \in Channels, b \in BOOLEAN }

\* The messages on_message is called with.
Incoming == Messages \cup EchoMessages

\* The default triggers stored: none, or "a" for user 1.
DefaultStores == { NoDefaults, [u \in Users |-> IF u = 1 THEN << "a" >> ELSE << >>] }

\* The webhooks of the bot that earlier runs left in channel 1, and the id
\* the transport gives out next.
EarlierRuns ==
    { [remote |-> {ForeignWebhook}, nextId |-> 1],
      [remote |-> {ForeignWebhook,
                   [id |-> 1, name |-> << "RP:", "B" >>, user |-> Me]},
       nextId |-> 2],
      [remote |-> {ForeignWebhook,
                   [id |-> 1, name |-> << "RP:", "B" >>, user |-> Me],
                   [id |-> 2, name |-> << "RP:", "C" >>, user |-> Me]},
       nextId |-> 3] }

\* A fresh process, the transport as earlier runs left it, a message
\* arriving.
ArrivalInit ==
    /\ webhooks = [c \in {} |-> << >>]
    /\ \E e \in EarlierRuns :
          /\ remote = [c \in Channels |-> IF c = 1 THEN e.remote ELSE {}]
          /\ nextId = e.nextId
    /\ now = 0
    /\ populations = [c \in Channels |-> 0]
    /\ history = {}
    /\ nextMsg = 1
    /\ pc = [t \in Tasks |-> "idle"]
    /\ req = [t \in Tasks |-> NoRequest]
    /\ profile = [t \in Tasks |-> 0]
    /\ held = [t \in Tasks |-> 0]
    /\ outcome = [t \in Tasks |-> "none"]
    /\ feedback = [t \in Tasks |-> NoMessage]
    /\ message_sent = [t \in Tasks |-> 0]
    /\ message \in Incoming
    /\ user_triggers \in DefaultStores
    /\ track = [NoTrack EXCEPT !.pc = "new"]
    /\ calls = << >>
    /\ delete_asked = FALSE

TrackInit ==
    ArrivalInit /\ message \in PlainMessages /\ arg = NoCall /\ result = Pending

\* A faulty variant of IsEmptyMessage: the attachments and stickers are
\* not looked at.
IsEmptyContent(content_found, files, stkrs) == content_found = << >>

\* not content_found and not message.attachments and not message.stickers
IsEmptyMessage(content_found, files, stkrs) ==
    content_found = << >> /\ files = {} /\ stkrs = {}

\* A faulty variant of WithDefault: the stored default is not used.
WithoutDefault(trigger_found, default_trigger) == trigger_found

\* if not trigger_found: the default trigger, if the user has one
WithDefault(trigger_found, default_trigger) ==
    IF trigger_found = << >> THEN default_trigger ELSE trigger_found

\* A faulty variant of Done: the original message is never deleted.
DoneWithoutDelete(verdict, deletes) ==
    /\ track' = [track EXCEPT !.pc = "done", !.verdict = verdict]
    /\ UNCHANGED delete_asked

\* track_messages ends with the given verdict.
Done(verdict, deletes) ==
    /\ track' = [track EXCEPT !.pc = "done", !.verdict = verdict]
    /\ delete_asked' = (delete_asked \/ deletes)

\* A faulty variant of Ignored: the author is not looked at.
IgnoredByChannel(m) == ~is_rp_enabled(m.channel)

\* if message.author.bot: return ... if not is_rp_enabled(channel): return
Ignored(m) == m.bot \/ ~is_rp_enabled(m.channel)

\* track_messages from its call to the loop over the parts: the channel
\* test, the match, the scene test, the test for an empty message, the
\* default trigger, the split.
track_messages ==
    /\ track.pc = "new"
    /\ UNCHANGED << cacheVars, storeVars, taskVars, callVars, message, user_triggers, calls >>
    /\ IF Ignored(message)
       THEN Done("ignored", FALSE)
       ELSE LET f == Found(message.content)
                files == message.attachments
                stkrs == message.stickers
            IN  IF f.trigger_found = Scene /\ f.content_found # << >>
                THEN /\ track' = [track EXCEPT !.pc = "scene_wait", !.verdict = "scene",
                                               !.trigger_found = f.trigger_found,
                                               !.content_found = Upper(f.content_found)]
                     /\ UNCHANGED delete_asked
                ELSE IF IsEmptyMessage(f.content_found, files, stkrs)
                THEN Done("empty", TRUE)
                ELSE LET default_trigger == user_triggers[message.author]
                         trigger_found == WithDefault(f.trigger_found, default_trigger)
                         content_file_only == f.content_found = << >>
                                              /\ (files # {} \/ stkrs # {})
                     IN  IF trigger_found = << >>
                         THEN Done("invalid", TRUE)
                         ELSE /\ track' =
                                    [pc |-> "loop", verdict |-> "dispatch",
                                     trigger_found |-> trigger_found,
                                     content_found |-> f.content_found,
                                     content_parts_msg |->
                                        IF content_file_only THEN << << >> >>
                                        ELSE split_message(f.content_found, ChunkLimit),
                                     i |-> 1]
                              /\ UNCHANGED delete_asked

\* A faulty variant of SendChunk: the attachments and stickers go with
\* every part.
SendChunkWithFiles ==
    /\ track.pc = "loop"
    /\ pc[1] = "idle"
    /\ track.i <= Len(track.content_parts_msg)
    /\ LET sent == [kind |-> "profile",
                    profile_trigger |-> track.trigger_found,
                    content |-> track.content_parts_msg[track.i],
                    attachments |-> message.attachments,
                    stickers |-> message.stickers,
                    reply_to |-> NoReference,
                    formatted |-> format_reply(track.content_parts_msg[track.i],
                                               NoReference).text,
                    message_sent |-> 0,
                    reported |-> NoMessage]
       IN  /\ Start(1, message.channel, track.trigger_found, message.author)
           /\ calls' = Append(calls, IF pc'[1] = "idle"
                                     THEN [sent EXCEPT !.reported = feedback'[1]]
                                     ELSE sent)
           /\ track' = [track EXCEPT !.i = IF pc'[1] = "idle" THEN @ + 1 ELSE @]
    /\ UNCHANGED << callVars, message, user_triggers, delete_asked >>

\* A faulty variant of SendChunk: the loop takes the parts from the last to
\* the first.
SendChunkBackwards ==
    /\ track.pc = "loop"
    /\ pc[1] = "idle"
    /\ track.i <= Len(track.content_parts_msg)
    /\ LET content_part_last == track.i = Len(track.content_parts_msg)
           part == track.content_parts_msg[Len(track.content_parts_msg) + 1 - track.i]
           sent == [kind |-> "profile",
                    profile_trigger |-> track.trigger_found,
                    content |-> part,
                    attachments |-> IF content_part_last THEN message.attachments ELSE {},
                    stickers |-> IF content_part_last THEN message.stickers ELSE {},
                    reply_to |-> NoReference,
                    formatted |-> format_reply(part, NoReference).text,
                    message_sent |-> 0,
                    reported |-> NoMessage]
       IN  /\ Start(1, message.channel, track.trigger_found, message.author)
           /\ calls' = Append(calls, IF pc'[1] = "idle"
                                     THEN [sent EXCEPT !.reported = feedback'[1]]
                                     ELSE sent)
           /\ track' = [track EXCEPT !.i = IF pc'[1] = "idle" THEN @ + 1 ELSE @]
    /\ UNCHANGED << callVars, message, user_triggers, delete_asked >>

\* One turn of the loop up to the first await of send_as_profile that
\* suspends: the attachments and stickers of the part, and the call.
SendChunk ==
    /\ track.pc = "loop"
    /\ pc[1] = "idle"
    /\ track.i <= Len(track.content_parts_msg)
    /\ LET content_part_last == track.i = Len(track.content_parts_msg)
           sent == [kind |-> "profile",
                    profile_trigger |-> track.trigger_found,
                    content |-> track.content_parts_msg[track.i],
                    attachments |-> IF content_part_last THEN message.attachments ELSE {},
                    stickers |-> IF content_part_last THEN message.stickers ELSE {},
                    reply_to |-> NoReference,
                    formatted |-> format_reply(track.content_parts_msg[track.i],
                                               NoReference).text,
                    message_sent |-> 0,
                    reported |-> NoMessage]
       IN  /\ Start(1, message.channel, track.trigger_found, message.author)
           /\ calls' = Append(calls, IF pc'[1] = "idle"
                                     THEN [sent EXCEPT !.reported = feedback'[1]]
                                     ELSE sent)
           /\ track' = [track EXCEPT !.i = IF pc'[1] = "idle" THEN @ + 1 ELSE @]
    /\ UNCHANGED << callVars, message, user_triggers, delete_asked >>

\* A faulty variant of ChunkStep: a part that was not sent ends the loop.
ChunkStepUntilFailure ==
    /\ track.pc = "loop"
    /\ pc[1] # "idle"
    /\ TaskStep(1)
    /\ calls' = [calls EXCEPT ![track.i] =
                    [@ EXCEPT !.message_sent =
                                  IF pc[1] = "send_wait" /\ pc'[1] = "history_wait"
                                  THEN message_sent'[1] ELSE @,
                              !.reported =
                                  IF pc'[1] = "idle" /\ outcome'[1] # "sent"
                                  THEN feedback'[1] ELSE @]]
    /\ track' = [track EXCEPT !.i = IF pc'[1] # "idle" THEN @
                                    ELSE IF outcome'[1] # "sent"
                                    THEN Len(track.content_parts_msg) + 1
                                    ELSE @ + 1]
    /\ UNCHANGED << callVars, message, user_triggers, delete_asked >>

\* send_as_profile goes on for the part; when it returns, the message it
\* sent is recorded by the loop (HistoryAdd) and the loop turns.
ChunkStep ==
    /\ track.pc = "loop"
    /\ pc[1] # "idle"
    /\ TaskStep(1)
    /\ calls' = [calls EXCEPT ![track.i] =
                    [@ EXCEPT !.message_sent =
                                  IF pc[1] = "send_wait" /\ pc'[1] = "history_wait"
                                  THEN message_sent'[1] ELSE @,
                              !.reported =
                                  IF pc'[1] = "idle" /\ outcome'[1] # "sent"
                                  THEN feedback'[1] ELSE @]]
    /\ track' = [track EXCEPT !.i = IF pc'[1] = "idle" THEN @ + 1 ELSE @]
    /\ UNCHANGED << callVars, message, user_triggers, delete_asked >>

\* A faulty variant of LoopEnd: the original message is deleted only when
\* every part was sent.
LoopEndAfterSuccess ==
    /\ track.pc = "loop"
    /\ pc[1] = "idle"
    /\ track.i > Len(track.content_parts_msg)
    /\ Done("dispatch", \A j \in DOMAIN calls : calls[j].message_sent # 0)
    /\ UNCHANGED << cacheVars, storeVars, taskVars, callVars, message, user_triggers, calls >>

\* After the loop the original message is deleted.
LoopEnd ==
    /\ track.pc = "loop"
    /\ pc[1] = "idle"
    /\ track.i > Len(track.content_parts_msg)
    /\ Done("dispatch", TRUE)
    /\ UNCHANGED << cacheVars, storeVars, taskVars, callVars, message, user_triggers, calls >>

\* A faulty variant of SceneSent: the scene message goes out through the
\* webhook manager, which sets up the list of the channel.
SceneSentThroughManager(ok) ==
    /\ track.pc = "scene_wait"
    /\ ok => nextMsg <= MaxMessages
    /\ LET sent == [kind |-> "scene", profile_trigger |-> << >>,
                    content |-> track.content_found,
                    attachments |-> {}, stickers |-> {},
                    message_sent |-> IF ok THEN nextMsg ELSE 0,
                    reported |-> IF ok THEN NoMessage
                                 ELSE [kind |-> "failed_to_send_scene", user |-> 0,
                                       trigger |-> << >>, listing |-> << >>]]
       IN  calls' = Append(calls, sent)
    /\ nextMsg' = IF ok THEN nextMsg + 1 ELSE nextMsg
    /\ IF ok THEN track' = [track EXCEPT !.pc = "scene_history"] /\ UNCHANGED delete_asked
             ELSE Done("scene", FALSE)
    /\ webhooks' = SetDefault(webhooks, message.channel)
    /\ UNCHANGED << remote, nextId, now, populations, history, taskVars, callVars,
                    message, user_triggers >>

\* The scene: channel.send of the embed answered or raised.  When it
\* raised, "Failed to send scene message." is sent and the original stays.
SceneSent(ok) ==
    /\ track.pc = "scene_wait"
    /\ ok => nextMsg <= MaxMessages
    /\ LET sent == [kind |-> "scene", profile_trigger |-> << >>,
                    content |-> track.content_found,
                    attachments |-> {}, stickers |-> {},
                    message_sent |-> IF ok THEN nextMsg ELSE 0,
                    reported |-> IF ok THEN NoMessage
                                 ELSE [kind |-> "failed_to_send_scene", user |-> 0,
                                       trigger |-> << >>, listing |-> << >>]]
       IN  calls' = Append(calls, sent)
    /\ nextMsg' = IF ok THEN nextMsg + 1 ELSE nextMsg
    /\ IF ok THEN track' = [track EXCEPT !.pc = "scene_history"] /\ UNCHANGED delete_asked
             ELSE Done("scene", FALSE)
    /\ UNCHANGED << cacheVars, history, taskVars, callVars, message, user_triggers >>

\* The scene: the response is recorded and the original message deleted.
SceneRecorded ==
    /\ track.pc = "scene_history"
    /\ history' = history \cup { << message.author, calls[Len(calls)].message_sent >> }
    /\ Done("scene", TRUE)
    /\ UNCHANGED << cacheVars, nextMsg, taskVars, callVars, message, user_triggers, calls >>

TrackNext ==
    \/ track_messages
    \/ SendChunk
    \/ ChunkStep
    \/ LoopEnd
    \/ \E ok \in BOOLEAN : SceneSent(ok)
    \/ SceneRecorded

TrackSpec == TrackInit /\ [][TrackNext]_vars

LoopInit == TrackInit /\ message \in LoopMessages /\ user_triggers = NoDefaults

LoopNext == track_messages \/ SendChunk \/ ChunkStep \/ LoopEnd

EchoInit ==
    /\ ArrivalInit /\ message \in EchoMessages /\ user_triggers = NoDefaults
    /\ arg = NoCall /\ result = Pending

EchoSpec == EchoInit /\ [][LoopNext]_vars

\* The event loop resumes the loop when what it awaits has answered, and
\* the transport and the store answer every request.
FairLoopSpec ==
    /\ LoopInit /\ [][LoopNext]_vars
    /\ WF_vars(SendChunk) /\ WF_vars(ChunkStep) /\ WF_vars(LoopEnd)

\* The messages of LoopMessages, replies among them, from authors without
\* a default.
ReplyInit ==
    /\ ArrivalInit /\ message \in LoopMessages /\ message.attachments = {}
    /\ user_triggers = NoDefaults
    /\ arg = NoCall /\ result = Pending

ReplySpec == ReplyInit /\ [][LoopNext]_vars

(***************************************************************************)
(* rp_scene (command_handler.py), the scene as a command, next to the      *)
(* scene of track_messages.                                                *)
(***************************************************************************)
\* The messages whose word is "scene" in some case, without stickers.
SceneMessages ==
    { m \in Messages :
        /\ m.stickers = {} /\ m.reference = NoReference
        /\ \E l \in Leads, g \in Gaps, c \in Colons, r \in Rests,
              w \in { Scene, << "S", "c", "e", "n", "e" >> } :
              m.content = l \o w \o g \o c \o r }

\* The invocations of /rp_scene by user 1.
SceneCommands ==
    { [kind |-> "rp_scene", channel |-> ch, user |-> 1,
       scene_text |-> << "h", "i" >>] : ch \in Channels }

SceneInit ==
    ArrivalInit /\ message \in SceneMessages /\ arg \in SceneCommands /\ result = Pending

\* rp_scene up to the answer of channel.send: the channel test, the text
\* in upper case, the send that answers or raises.
RpSceneSent(ok) ==
    /\ arg.kind = "rp_scene"
    /\ result = Pending
    /\ (ok /\ is_rp_enabled(arg.channel)) => nextMsg <= MaxMessages
    /\ IF ~is_rp_enabled(arg.channel)
       THEN /\ result' = [kind |-> "rp_scene", state |-> "not_enabled",
                          content |-> << >>, message_sent |-> 0]
            /\ UNCHANGED nextMsg
       ELSE IF ok
       THEN /\ result' = [kind |-> "rp_scene", state |-> "sent",
                          content |-> Upper(arg.scene_text), message_sent |-> nextMsg]
            /\ nextMsg' = nextMsg + 1
       ELSE /\ result' = [kind |-> "rp_scene", state |-> "failed",
                          content |-> Upper(arg.scene_text), message_sent |-> 0]
            /\ UNCHANGED nextMsg
    /\ UNCHANGED << arg, cacheVars, history, taskVars, handlerVars >>

\* rp_scene after the send: delete_original_response answered and the
\* response is recorded, or it raised and the handler ends in its except
\* branch without the row.
RpSceneRecorded(ok) ==
    /\ result # Pending
    /\ result.kind = "rp_scene" /\ result.state = "sent"
    /\ history' = IF ok THEN history \cup { << arg.user, result.message_sent >> }
                        ELSE history
    /\ result' = [result EXCEPT !.state = IF ok THEN "recorded" ELSE "unrecorded"]
    /\ UNCHANGED << arg, cacheVars, nextMsg, taskVars, handlerVars >>

SceneNext ==
    \/ TrackNext
    \/ \E ok \in BOOLEAN : RpSceneSent(ok)
    \/ \E ok \in BOOLEAN : RpSceneRecorded(ok)

SceneSpec == SceneInit /\ [][SceneNext]_vars

(***************************************************************************)
(* Properties.                                                             *)
(***************************************************************************)
Known(channel) == channel \in DOMAIN webhooks

\* No model of the list is strictly older than m.
Oldest(models, m) == \A i \in DOMAIN models : models[i].created_at >= m.created_at

Last(models) == models[Len(models)]

\* The task is between the miss of get_for_profile and the append of
\* _create_webhook.
InMiss(t) == pc[t] \in {"delete_wait", "avatar_wait", "create_wait"}

\* C1: in every state, every channel of the cache holds at most `limit`
\* webhooks.
C1_SizeWithinLimit ==
    \A c \in DOMAIN webhooks : Len(webhooks[c]) <= Limit

\* C2: in every state, no two webhooks cached for a channel carry the name
\* of the same profile.
C2_OneHandlePerPersona ==
    \A c \in DOMAIN webhooks :
        \A i, j \in DOMAIN webhooks[c] :
            i # j => webhooks[c][i].name # webhooks[c][j].name

\* C3: the stretch from the miss to the insert is a critical section of the
\* channel: no two tasks are in it for the same channel and profile, and
\* the cache never holds two webhooks that get_for_profile created for the
\* same profile.
C3_CriticalSection ==
    /\ \A t1, t2 \in Tasks :
          (t1 # t2 /\ InMiss(t1) /\ InMiss(t2) /\ req[t1].channel = req[t2].channel)
             => profile[t1] # profile[t2]
    /\ \A c \in DOMAIN webhooks :
          \A i, j \in DOMAIN webhooks[c] :
             (i # j /\ webhooks[c][i].origin = "created" /\ webhooks[c][j].origin = "created")
                => webhooks[c][i].name # webhooks[c][j].name

\* C4: a cache hit makes the webhook the most recently used one of its
\* channel, and an eviction never removes a webhook that a hit has
\* refreshed while another cached webhook is strictly older.
C4_HitIsKept ==
    [][\A t \in Tasks :
          /\ (pc[t] \in {"idle", "list_wait"} /\ pc'[t] = "send_wait")
                => \E i \in DOMAIN webhooks'[req'[t].channel] :
                      LET m == webhooks'[req'[t].channel][i]
                      IN  /\ m.id = held'[t] /\ m.hit
                          /\ \A j \in DOMAIN webhooks'[req'[t].channel] :
                                webhooks'[req'[t].channel][j].created_at <= m.created_at
          /\ (pc[t] = "delete_wait" /\ pc'[t] = "avatar_wait")
                => (Last(webhooks[req[t].channel]).hit
                       => Oldest(webhooks[req[t].channel], Last(webhooks[req[t].channel])))
      ]_vars

\* C5: a miss at or above the limit asks for the deletion of the oldest
\* webhook, removes exactly that webhook from the cache whether or not the
\* deletion went through, and goes on to create the new one; a miss below
\* the limit removes nothing.
C5_EvictsTheOldest ==
    [][\A t \in Tasks :
          /\ (pc[t] \in {"idle", "list_wait"} /\ pc'[t] = "delete_wait")
                => /\ Len(webhooks'[req'[t].channel]) >= Limit
                   /\ \E i \in DOMAIN webhooks'[req'[t].channel] :
                         /\ webhooks'[req'[t].channel][i].id = held'[t]
                         /\ Oldest(webhooks'[req'[t].channel], webhooks'[req'[t].channel][i])
          /\ (pc[t] = "delete_wait" /\ pc'[t] = "idle") => outcome'[t] = "none"
          /\ (pc[t] = "delete_wait" /\ pc'[t] = "avatar_wait")
                => /\ Last(webhooks[req[t].channel]).id = held[t]
                   /\ Oldest(webhooks[req[t].channel], Last(webhooks[req[t].channel]))
                   /\ webhooks'[req[t].channel] = PopLast(webhooks[req[t].channel])
          /\ (pc[t] = "idle" /\ pc'[t] = "avatar_wait")
                => /\ webhooks' = webhooks
                   /\ Len(webhooks[req'[t].channel]) < Limit
      ]_vars

\* C6: when the transport refuses to create the webhook, send_as_profile
\* hands "Webhook creation failed." to the callback and returns None
\* without a send, and the cache and the transport's webhooks are as before
\* the refusal, so the size bound and the one-per-profile property are not
\* lost by it.
C6_CreationFailureKeepsCache ==
    [][\A t \in Tasks :
          (pc[t] = "create_wait" /\ outcome'[t] = "failed")
             => /\ pc'[t] = "idle"
                /\ feedback'[t] = FailedMessage(req[t].user, "Webhook creation failed.")
                /\ message_sent'[t] = 0
                /\ nextMsg' = nextMsg /\ history' = history
                /\ remote' = remote
                /\ webhooks' = webhooks
                /\ (C1_SizeWithinLimit => C1_SizeWithinLimit')
                /\ (C2_OneHandlePerPersona => C2_OneHandlePerPersona')
      ]_vars

\* A dispatch has ended in the creation failure.
C6_Witness ==
    \E t \in Tasks :
        /\ outcome[t] = "failed"
        /\ feedback[t] = FailedMessage(1, "Webhook creation failed.")
        /\ Known(1)

\* The first cached webhook with the profile's name, the one a hit returns,
\* is gone at the transport.
StaleHit(p) ==
    /\ Known(1)
    /\ LET i == FirstNamed(webhooks[1], get_profile_identifier(impersonation_profiles[p]))
       IN  i # 0 /\ webhooks[1][i].id \notin RemoteIds(1)

\* A dispatch for the profile is at its send.
Sending(p) == pc[1] = "send_wait" /\ req[1].channel = 1 /\ profile[1] = p

\* C7: if dispatches for a profile keep coming, its cached webhook does not
\* stay one that was deleted at the transport: again and again the cache
\* holds no stale webhook for it.
C7_StaleHandleReplaced ==
    \A p \in DOMAIN impersonation_profiles :
        ([]<>Sending(p)) => ([]<>(~StaleHit(p)))

\* C8: for every channel the listing of _populateWebhooks is asked for at
\* most once, and no webhook is appended twice from a listing.
C8_PopulatedOnce ==
    \A c \in Channels :
        /\ populations[c] <= 1
        /\ Known(c) =>
              \A i, j \in DOMAIN webhooks[c] :
                  (i # j /\ webhooks[c][i].origin = "listing" /\ webhooks[c][j].origin = "listing")
                     => webhooks[c][i].id # webhooks[c][j].id

\* A second task has started on the channel while the first one waits for
\* the listing.
C8_Witness ==
    /\ pc[1] = "list_wait" /\ req[1].channel = 1
    /\ pc[2] \in {"avatar_wait", "create_wait", "send_wait"} /\ req[2].channel = 1
    /\ populations[1] = 1

\* Some profile with the trigger admits the user.
Usable(trigger, user) ==
    \E i \in DOMAIN impersonation_profiles :
        /\ HasTrigger(impersonation_profiles[i], Lower(trigger))
        /\ is_allowed_user(impersonation_profiles[i], user)

\* C9: a request whose trigger belongs to no profile the user may use never
\* gets past the registry lookup: no task works on it, and the step that
\* rejects it changes neither the cache nor the transport nor the history
\* and returns no message.
C9_RejectedTouchesNothing ==
    [][\A t \in Tasks :
          /\ pc'[t] # "idle" => Usable(req'[t].trigger, req'[t].user)
          /\ (/\ pc[t] = "idle"
              /\ outcome'[t] = "rejected"
              /\ << outcome[t], feedback[t] >> # << outcome'[t], feedback'[t] >>)
                => /\ ~Usable(feedback'[t].trigger, feedback'[t].user)
                   /\ pc'[t] = "idle"
                   /\ message_sent'[t] = 0
                   /\ UNCHANGED << cacheVars, storeVars >>
      ]_vars

\* User 2 was rejected for the trigger of the profile restricted to user 1,
\* with webhooks in the cache.
C9_Witness ==
    /\ outcome[1] = "rejected"
    /\ feedback[1].user = 2 /\ feedback[1].trigger = <<"c">>
    /\ Known(1) /\ Len(webhooks[1]) > 0

\* The registry without its k-th profile.
WithoutProfile(profiles, k) ==
    SubSeq(profiles, 1, k - 1) \o SubSeq(profiles, k + 1, Len(profiles))

\* C10: what the caller of a rejected request gets (None, and the message
\* with the typed trigger and the listing) is what it would get from the
\* registry without the restricted profile that has the trigger.
C10_DenialLooksLikeAbsence ==
    \A t \in Tasks :
        outcome[t] = "rejected" =>
            \A k \in DOMAIN impersonation_profiles :
                (/\ HasTrigger(impersonation_profiles[k], Lower(feedback[t].trigger))
                 /\ ~is_allowed_user(impersonation_profiles[k], feedback[t].user))
                   => /\ pc[t] = "idle" /\ message_sent[t] = 0
                      /\ get_profile_by_trigger_and_user(
                            WithoutProfile(impersonation_profiles, k),
                            feedback[t].trigger, feedback[t].user) = 0
                      /\ feedback[t] = NotFoundMessage(
                            WithoutProfile(impersonation_profiles, k),
                            feedback[t].trigger, feedback[t].user)

\* User 2 was told that the trigger of the restricted profile is not found,
\* and was shown the two unrestricted profiles.
C10_Witness ==
    \E t \in Tasks :
        /\ outcome[t] = "rejected"
        /\ feedback[t].kind = "no_profile_found"
        /\ feedback[t].user = 2 /\ feedback[t].trigger = <<"c">>
        /\ Len(feedback[t].listing) = 2

\* Two triggers that differ in the case of their letters at most.
SameButCase(s1, s2) == Lower(s1) = Lower(s2)

\* C11: the lookup returns a profile exactly for the case variants of its
\* configured triggers: a trigger that is a case variant of a trigger of a
\* profile the user may use finds that profile, and a trigger that finds a
\* profile is a case variant of one of its triggers.
C11_CaseInsensitiveExact ==
    (arg.kind = "find" /\ result.kind = "find") =>
        /\ \A k \in DOMAIN impersonation_profiles :
              (/\ is_allowed_user(impersonation_profiles[k], arg.user)
               /\ \E i \in DOMAIN impersonation_profiles[k].triggers :
                     SameButCase(impersonation_profiles[k].triggers[i], arg.profile_trigger))
                 => result.profile = k
        /\ result.profile # 0 =>
              \E i \in DOMAIN impersonation_profiles[result.profile].triggers :
                  SameButCase(impersonation_profiles[result.profile].triggers[i],
                              arg.profile_trigger)

\* C15: the parts _split_message returns, put together in order, are the
\* message, and no part is longer than the limit.
C15_SplitRoundTrip ==
    (arg.kind = "split" /\ result.kind = "split") =>
        /\ Concat(result.parts) = arg.message
        /\ \A i \in DOMAIN result.parts : Len(result.parts[i]) <= arg.limit

\* A text of several lines was split into more than two parts, one of them
\* a slice of a line longer than the limit.
C15_Witness ==
    /\ arg.kind = "split" /\ result.kind = "split"
    /\ Len(result.parts) > 2
    /\ \E i \in DOMAIN arg.message : arg.message[i] = "\n"
    /\ \E i \in DOMAIN result.parts :
          Len(result.parts[i]) = arg.limit /\ result.parts[i][arg.limit] # "\n"

\* The message was handed to the loop over its parts.
Dispatched == track.verdict = "dispatch"

\* The call of send_as_profile for the j-th part has sent a message.
Delivered(j) == j \in DOMAIN calls /\ calls[j].message_sent # 0

\* C12: the calls of send_as_profile for a message carry its parts in
\* order; every call but the one for the last part carries no attachment
\* and no sticker, the call for the last part carries the attachments and
\* the stickers of the message, and so no attachment and no sticker goes
\* out with two calls.
C12_FilesOnLastPartOnly ==
    Dispatched =>
        /\ Len(calls) <= Len(track.content_parts_msg)
        /\ \A j \in DOMAIN calls :
              /\ calls[j].content = track.content_parts_msg[j]
              /\ IF j = Len(track.content_parts_msg)
                 THEN /\ calls[j].attachments = message.attachments
                      /\ calls[j].stickers = message.stickers
                 ELSE /\ calls[j].attachments = {}
                      /\ calls[j].stickers = {}
        /\ \A f \in message.attachments \cup message.stickers :
              \A j, k \in DOMAIN calls :
                  (f \in calls[j].attachments \cup calls[j].stickers
                   /\ f \in calls[k].attachments \cup calls[k].stickers) => j = k

\* A message with an attachment and a sticker went out in two parts, both
\* delivered.
C12_Witness ==
    /\ Dispatched /\ track.pc = "done"
    /\ Len(calls) = 2
    /\ Delivered(1) /\ Delivered(2)
    /\ calls[2].attachments = {"file"} /\ calls[2].stickers = {"sticker"}

\* send_as_profile has returned None for the j-th part.
Refused(j) == j \in DOMAIN calls /\ j < track.i /\ calls[j].message_sent = 0

\* C13: a part that send_as_profile did not send is reported to the
\* callback and does not end the loop: the parts sent before it stay sent
\* and recorded, and the parts after it are handed to send_as_profile in
\* order until the last one.
C13_FailureDoesNotStopTheLoop ==
    /\ [](Dispatched => \A j \in DOMAIN calls :
                            Refused(j) => calls[j].reported # NoMessage)
    /\ [][/\ history \subseteq history'
          /\ \A j \in DOMAIN calls :
                /\ j \in DOMAIN calls'
                /\ Delivered(j) => calls'[j] = calls[j]]_vars
    /\ (Dispatched /\ \E j \in DOMAIN calls :
                          Refused(j) /\ j < Len(track.content_parts_msg))
          ~> (/\ track.pc = "done"
              /\ Len(calls) = Len(track.content_parts_msg)
              /\ \A j \in DOMAIN calls : calls[j].content = track.content_parts_msg[j])

\* Of three parts the first was sent, the second failed at the transport
\* and was reported, and the third was sent after it.
C13_Witness ==
    /\ Dispatched /\ track.pc = "done"
    /\ Len(calls) = 3
    /\ Delivered(1) /\ Delivered(3)
    /\ Refused(2) /\ calls[2].reported.kind = "failed_to_send"
    /\ Cardinality(history) = 2

\* The author of the message with each message that a call for it has sent.
SentPairs ==
    { << message.author, calls[j].message_sent >> : j \in { k \in DOMAIN calls : Delivered(k) } }

\* C14: the history holds the pairs of the author and a sent message and
\* nothing else: a call that sent nothing leaves no row, every sent message
\* has its own row once the handler is done, and before that only the
\* message just sent may still wait for its row.
C14_HistoryIsWhatWasSent ==
    /\ history \subseteq SentPairs
    /\ \A j \in DOMAIN calls :
          Delivered(j) =>
              \/ << message.author, calls[j].message_sent >> \in history
              \/ /\ j = Len(calls)
                 /\ pc[1] = "history_wait" \/ track.pc = "scene_history"
    /\ \A j, k \in DOMAIN calls :
          (Delivered(j) /\ Delivered(k) /\ j # k)
             => calls[j].message_sent # calls[k].message_sent
    /\ track.pc = "done" => history = SentPairs

\* The first of two parts failed, the second was sent, and the history has
\* the one row of the second.
C14_Witness ==
    /\ Dispatched /\ track.pc = "done"
    /\ Len(calls) = 2
    /\ Refused(1) /\ Delivered(2)
    /\ history = { << message.author, calls[2].message_sent >> }

\* The content of the message is white space, the word w, white space, a
\* colon and the rest r.
WordColonRest(w, r) ==
    \E l \in Leads, g \in Gaps : message.content = l \o w \o g \o << ":" >> \o r

\* The content of the message is white space, the word w, white space and
\* the rest r, without the colon.
WordRest(w, r) ==
    \E l \in Leads, g \in Gaps : message.content = l \o w \o g \o r

\* track_messages has looked at the message of an enabled channel.
Parsed == is_rp_enabled(message.channel) /\ track.pc # "new"

\* The message has no attachment and no sticker.
Bare == message.attachments = {} /\ message.stickers = {}

\* The message goes, or went, to send_as_profile under the trigger with
\* the payload: the parts put together are the payload, and every call has
\* the trigger.
SentAs(trigger, payload) ==
    /\ Dispatched
    /\ track.trigger_found = trigger
    /\ Concat(track.content_parts_msg) = payload
    /\ \A j \in DOMAIN calls :
          calls[j].kind = "profile" /\ calls[j].profile_trigger = trigger

\* The message was dropped with the verdict, and nothing was sent for it.
Dropped(verdict) ==
    track.pc = "done" /\ track.verdict = verdict /\ calls = << >> /\ delete_asked

\* C16: a message of the form word, colon, rest, with white space allowed
\* before the word and before the colon, the word being neither a URL
\* scheme nor "scene", is sent under the word as its trigger with the
\* stripped rest as its payload, whatever default its author has stored;
\* it is dropped as empty when there is nothing to send at all.
C16_WordBeforeColonIsTheTrigger ==
    \A w \in Words \ { << >>, Scene }, r \in Rests :
        (Parsed /\ WordColonRest(w, r) /\ ~StartsWith(w, Http))
           => IF Strip(r) = << >> /\ Bare
              THEN Dropped("empty")
              ELSE SentAs(w, Strip(r))

\* "  B : hi " from the user whose default is "a" was sent as "hi" under
\* the trigger "B".
C16_Witness ==
    /\ track.pc = "done"
    /\ message.content = << " ", " ", "B", " ", ":", " ", "h", "i", " " >>
    /\ user_triggers[message.author] = << "a" >>
    /\ Len(calls) = 1 /\ Delivered(1)
    /\ calls[1].profile_trigger = << "B" >> /\ calls[1].content = << "h", "i" >>

\* C17: a message whose word before the colon starts with "http" is never
\* sent under that word: its whole stripped content is the payload, it is
\* dropped as invalid when its author has no default stored, and it is
\* sent under the default when there is one.
C17_UrlIsNotATrigger ==
    \A w \in Words, r \in Rests :
        (Parsed /\ WordColonRest(w, r) /\ StartsWith(w, Http))
           => /\ \A j \in DOMAIN calls : calls[j].profile_trigger # w
              /\ IF user_triggers[message.author] = << >>
                 THEN Dropped("invalid")
                 ELSE SentAs(user_triggers[message.author], Strip(message.content))

\* "https://a:8" from the user whose default is "a" went out whole, in
\* three parts under "a".
C17_Witness ==
    /\ track.pc = "done"
    /\ message.content = Http \o << "s", ":", "/", "/", "a", ":", "8" >>
    /\ Len(calls) = 3 /\ Delivered(1)
    /\ \A j \in DOMAIN calls : calls[j].profile_trigger = << "a" >>
    /\ calls[1].content \o calls[2].content \o calls[3].content = message.content

\* C18: a message without a word and a colon at its start is sent under
\* the default trigger its author has stored, with its whole stripped
\* content as the payload; when the author has stored no default, the
\* message is dropped as invalid and nothing is sent for it.  A message
\* with nothing to send at all is dropped as empty, default or not.
C18_DefaultTrigger ==
    \A w \in Words, r \in Rests :
        (Parsed /\ WordRest(w, r))
           => IF Strip(message.content) = << >> /\ Bare
              THEN Dropped("empty")
              ELSE IF user_triggers[message.author] = << >>
              THEN Dropped("invalid")
              ELSE SentAs(user_triggers[message.author], Strip(message.content))

\* "B  hi " from the user whose default is "a" was sent whole, in two
\* parts under "a".
C18_Witness ==
    /\ track.pc = "done"
    /\ message.content = << "B", " ", " ", "h", "i", " " >>
    /\ Len(calls) = 2 /\ Delivered(1) /\ Delivered(2)
    /\ calls[1].profile_trigger = << "a" >>
    /\ calls[1].content \o calls[2].content = << "B", " ", " ", "h", "i" >>

\* The content of the message is white space, the word w, white space, the
\* colon c or none, and the rest r.
Typed(w, c, r) ==
    \E l \in Leads, g \in Gaps : message.content = l \o w \o g \o c \o r

\* The word w before the colon c is the trigger the author has typed.
Explicit(w, c) == c = << ":" >> /\ w # << >> /\ ~StartsWith(w, Http)

\* C19: a message is dropped as empty exactly when it has no payload, no
\* attachment and no sticker, the payload being the stripped rest behind
\* a typed trigger and the whole stripped content without one; a message
\* without payload but with an attachment or a sticker, and with a typed
\* or a default trigger, goes to send_as_profile once, with the empty
\* text, its attachments and its stickers.
C19_EmptyMessage ==
    \A w \in Words, c \in Colons, r \in Rests :
        (Parsed /\ Typed(w, c, r))
           => LET payload == IF Explicit(w, c) THEN Strip(r) ELSE Strip(message.content)
                  trigger == IF Explicit(w, c) THEN w ELSE user_triggers[message.author]
              IN  /\ track.verdict = "empty" <=> (payload = << >> /\ Bare)
                  /\ (payload = << >> /\ ~Bare /\ trigger # << >>)
                        => /\ SentAs(trigger, << >>)
                           /\ track.content_parts_msg = << << >> >>
                           /\ Len(calls) <= 1
                           /\ track.pc = "done" => Len(calls) = 1
                           /\ \A j \in DOMAIN calls :
                                 /\ calls[j].content = << >>
                                 /\ calls[j].attachments = message.attachments
                                 /\ calls[j].stickers = message.stickers

\* "a:" with an attachment and a sticker was sent as one message without
\* text.
C19_Witness ==
    /\ track.pc = "done"
    /\ message.content = << "a", ":" >>
    /\ Len(calls) = 1 /\ Delivered(1)
    /\ calls[1].content = << >>
    /\ calls[1].attachments = {"file"} /\ calls[1].stickers = {"sticker"}

\* C20: for a message that starts, after white space, with a colon, no
\* call of send_as_profile is made, whether its author has stored a
\* default trigger or not.
C20_ColonWithoutWordIsRejected ==
    \A r \in Rests :
        (Parsed /\ Typed(<< >>, << ":" >>, r)) => (~Dispatched /\ calls = << >>)

\* C21: the step that drops a message as empty or as invalid ends the
\* handler, asks for the deletion of the message and does nothing else: no
\* call of send_as_profile, no webhook looked up, created or deleted, no
\* message sent and no row in the history.
C21_RejectionDoesNothingButDelete ==
    [][track'.verdict \in {"empty", "invalid"}
          => /\ track'.pc = "done"
             /\ delete_asked'
             /\ calls' = << >>
             /\ UNCHANGED << cacheVars, storeVars, taskVars, calls >>]_vars

\* A message with an attachment, without trigger and without default, was
\* dropped as invalid in a channel where earlier runs have left webhooks.
C21_Witness ==
    /\ Dropped("invalid")
    /\ message.attachments # {}
    /\ Cardinality(remote[1]) > 1
    /\ history = {} /\ webhooks = [c \in {} |-> << >>]

\* C22: a message whose word before the colon is "scene" in any case of
\* its letters, with a rest that is not blank, takes the scene path: the
\* stripped rest in upper case is sent once as the scene message, and
\* send_as_profile is not called, so no profile is looked up.
C22_SceneInAnyCase ==
    \A w \in Words, r \in Rests :
        (Parsed /\ WordColonRest(w, r) /\ Lower(w) = Scene /\ Strip(r) # << >>)
           => /\ track.verdict = "scene"
              /\ track.content_found = Upper(Strip(r))
              /\ Len(calls) <= 1
              /\ \A j \in DOMAIN calls :
                    calls[j].kind = "scene" /\ calls[j].content = Upper(Strip(r))
              /\ pc[1] = "idle" /\ outcome[1] = "none"

\* C23: no step of the scene path, of track_messages or of rp_scene,
\* changes the cache of the webhook manager or the webhooks at the
\* transport, and none starts or moves a call of send_as_profile: nothing
\* is listed, inserted, evicted, refreshed, created or deleted.
C23_SceneLeavesTheCacheAlone ==
    [][(track'.verdict = "scene" \/ result' # result)
          => UNCHANGED << cacheVars, taskVars >>]_vars

\* The scene of a message and the scene of a command were both sent and
\* recorded, with webhooks of earlier runs at the transport and no list in
\* the cache.
C23_Witness ==
    /\ track.pc = "done" /\ track.verdict = "scene" /\ Delivered(1)
    /\ result # Pending /\ result.state = "recorded"
    /\ Cardinality(history) = 2
    /\ Cardinality(remote[1]) > 1
    /\ webhooks = [c \in {} |-> << >>]

\* The environment in which a fetch that raises answers with another
\* status instead.
Quietly(env) ==
    [env EXCEPT !.fetch = [u \in DOMAIN env.fetch |->
                              IF env.fetch[u] = "raise" THEN "status" ELSE env.fetch[u]]]

QuoteOf(ref) ==
    << ">", " " >> \o ref.author \o << ":", " " >>
    \o Take(Flatten(ref.content), QuoteLength) \o << "\n" >>

\* C24: when the message is a reply to a message that is not ephemeral,
\* the text sent for its first part is the quote followed by the part,
\* and the text of no other part starts with the quote; when it is a reply
\* to an ephemeral message, no text starts with the quote.
C24_ReplyIsQuotedOnce ==
    (Dispatched /\ message.reference # NoReference) =>
        \A j \in DOMAIN calls :
            Delivered(j) =>
                IF j = 1 /\ ~message.reference.ephemeral
                THEN calls[j].formatted = QuoteOf(message.reference) \o calls[j].content
                ELSE ~StartsWith(calls[j].formatted, QuoteOf(message.reference))

\* The sticker is one the function has a file for: a PNG or APNG whose
\* data is fetched, or a Lottie animation with a url whose data is fetched
\* and converted.
Obtainable(sticker) ==
    \/ sticker.format_type \in {1, 3} /\ sticker.fetch = "ok"
    \/ /\ sticker.format_type = 2 /\ sticker.has_url
       /\ sticker.fetch = "ok" /\ sticker.convert = "ok"

\* Per sticker, its file when it is obtainable.
OwnFiles(stickers) ==
    [k \in DOMAIN stickers |->
        IF Obtainable(stickers[k])
        THEN << stickers[k].name \o (IF stickers[k].format_type = 2
                                     THEN << ".", "g", "i", "f" >>
                                     ELSE << ".", "p", "n", "g" >>) >>
        ELSE << >>]

\* C26: whatever the stickers of a part do, webhook.send is called with the
\* text of the part and with its attachments followed by the files of the
\* stickers that could be fetched and converted, in their order; a sticker
\* that raises, and a Lottie sticker without url, leaves out its own file
\* and nothing else.
C26_StickerFailureSkipsTheSticker ==
    (arg.kind = "stickers" /\ result.kind = "stickers") =>
        /\ ~result.raised
        /\ result.content = arg.content
        /\ result.files = arg.attachments \o Concat(OwnFiles(arg.stickers))

\* A part with an attachment and two stickers, the first of which raised,
\* was handed to webhook.send with the attachment and the file of the
\* second.
C26_Witness ==
    /\ arg.kind = "stickers" /\ result.kind = "stickers"
    /\ Len(arg.stickers) = 2
    /\ arg.stickers[1].fetch = "raise"
    /\ arg.attachments # << >>
    /\ result.files = arg.attachments \o << << "l", ".", "g", "i", "f" >> >>

\* C27: track_messages posts a warning to the channel only for a part
\* whose delivery failed: a message dropped as empty or as invalid, and a
\* part whose trigger belongs to no profile its author may use, post
\* nothing.
C27_WarningOnlyOnDeliveryFailure ==
    /\ track.verdict \in {"empty", "invalid"} => calls = << >>
    /\ \A j \in DOMAIN calls :
          calls[j].reported # NoMessage
             => calls[j].reported.kind \in {"failed_to_send", "failed_to_send_scene"}

\* C28: send_as_profile never raises to its caller: whatever the channel
\* object, the trigger and the user, the caller gets a returned value, and
\* the value names a delivered message exactly when the send succeeded.
C28_EveryOutcomeIsReturned ==
    result.kind = "dispatch"
       => /\ ~result.raised
          /\ (result.message_sent # 0) <=> (result.outcome = "sent")

\* Two different profiles of the list claim the same trigger, letter case
\* aside.
ClaimedTwice(v) ==
    \E i, j \in DOMAIN v :
       /\ i # j
       /\ \E t \in Range(v[i].triggers), u \in Range(v[j].triggers) : Lower(t) = Lower(u)

\* C29: a configuration in which two profiles claim the same trigger,
\* compared without regard to letter case, is refused when it is loaded,
\* and in a registry that was loaded every typed trigger matches at most
\* one profile.
C29_SharedTriggerFailsTheLoad ==
    result.kind = "load"
       => /\ ClaimedTwice(arg.profiles) => result.raised
          /\ ~result.raised
                => \A tr \in ConfigTriggers, u \in Users :
                      Cardinality(MatchingProfiles(result.profiles, tr, u)) <= 1

\* How many times the record r is in the list s.
Count(s, r) == Cardinality({ j \in DOMAIN s : s[j] = r })

\* The lists hold the same records, each as many times.
SameModels(s, u) ==
    /\ Len(s) = Len(u)
    /\ \A j \in DOMAIN s : Count(s, s[j]) = Count(u, s[j])

\* Task t calls get_for_profile in this step, and the cache of the channel
\* holds a model with the name of the profile.
CalledWithEntry(t) ==
    /\ pc[t] = "idle"
    /\ pc'[t] # "idle"
    /\ req'[t].channel \in DOMAIN webhooks
    /\ \E i \in DOMAIN webhooks[req'[t].channel] :
          webhooks[req'[t].channel][i].name
             = get_profile_identifier(impersonation_profiles[profile'[t]])

\* C30: get_for_profile called while the channel's cache holds a model with
\* the profile's name goes on to send with the webhook of such a model,
\* sets that model's timestamp to the present time, leaves every other
\* model of every channel as it is, and neither creates nor deletes a
\* webhook on the transport.
C30_HitRefreshesOneModel ==
    [][\A t \in Tasks :
          CalledWithEntry(t)
             => LET channel == req'[t].channel
                    models == webhooks[channel]
                IN  /\ pc'[t] = "send_wait"
                    /\ remote' = remote
                    /\ nextId' = nextId
                    /\ DOMAIN webhooks' = DOMAIN webhooks
                    /\ \A c \in DOMAIN webhooks : c # channel => webhooks'[c] = webhooks[c]
                    /\ \E i \in DOMAIN models :
                          /\ models[i].name
                                = get_profile_identifier(impersonation_profiles[profile'[t]])
                          /\ held'[t] = models[i].id
                          /\ SameModels(webhooks'[channel],
                                        [models EXCEPT ![i].created_at = now,
                                                       ![i].hit = TRUE])]_vars

\* A hit at a later time than the model's creation, in a cache that holds
\* another model with an older timestamp.
C30_Witness ==
    /\ pc[1] = "send_wait"
    /\ 1 \in DOMAIN webhooks
    /\ \E i, j \in DOMAIN webhooks[1] :
          /\ webhooks[1][i].id = held[1]
          /\ webhooks[1][i].hit
          /\ webhooks[1][i].created_at = now
          /\ webhooks[1][j].created_at < now

\* The list without its element at index i.
Without(s, i) == SubSeq(s, 1, i - 1) \o SubSeq(s, i + 1, Len(s))

\* Task t comes back from `await webhook.delete()` in this step.
Evicts(t) == pc[t] = "delete_wait" /\ pc'[t] # "delete_wait"

\* C31: whatever the interleaving of the coroutines, the model an eviction
\* takes out of the channel's list is a model of the webhook whose deletion
\* that eviction asked for, no model of that webhook stays in the list, and
\* no two evictions in flight ask for the deletion of the same webhook.
C31_EvictsWhatItDeleted ==
    [][\A t \in Tasks :
          Evicts(t)
             => LET channel == req[t].channel
                    models == webhooks[channel]
                IN  /\ \E i \in DOMAIN models :
                          /\ models[i].id = held[t]
                          /\ webhooks'[channel] = Without(models, i)
                    /\ \A j \in DOMAIN webhooks'[channel] :
                          webhooks'[channel][j].id # held[t]
                    /\ \A u \in Tasks \ {t} :
                          pc[u] = "delete_wait" /\ req[u].channel = channel
                             => held[u] # held[t]]_vars

\* The ids of the webhooks the cache w holds for the channel.
CachedIds(w, channel) ==
    IF channel \in DOMAIN w THEN { w[channel][i].id : i \in DOMAIN w[channel] } ELSE {}

\* C32: a call that ends in "Webhook creation failed." leaves the channel
\* with the cached webhooks it had when the call was made, and the
\* transport with the webhooks it had, also when the list was at the limit
\* at the call.
C32_CreationFailureChangesNothing ==
    (/\ arg.kind = "observed"
     /\ result.kind = "dispatch"
     /\ feedback[1] = FailedMessage(1, "Webhook creation failed."))
       => /\ CachedIds(webhooks, 1) = CachedIds(arg.webhooks, 1)
          /\ remote = arg.remote

\* C33: a coroutine that entered get_for_profile while another one still
\* waits for the listing of the same channel does not get a new webhook
\* created for a profile of which the channel already has a webhook, made
\* by the bot and named RP:<username>.
C33_NoCreationDuringPopulation ==
    [][\A t, u \in Tasks :
          (/\ pc[t] = "create_wait" /\ pc'[t] = "send_wait"
           /\ pc[u] = "list_wait" /\ req[u].channel = req[t].channel)
             => ~\E h \in remote[req[t].channel] :
                    /\ h.user = Me
                    /\ h.name = get_profile_identifier(impersonation_profiles[profile[t]])]_vars

\* C34: when get_for_profile has returned a webhook, and when the listing
\* of a channel has been taken in, the channel's list is in the order of
\* use, the most recent first: the timestamps do not increase along the
\* list, and the model of the webhook just returned is the first.
C34_MostRecentFirst ==
    \A t \in Tasks :
        pc[t] = "send_wait"
           => LET models == webhooks[req[t].channel]
              IN  /\ \A i, j \in DOMAIN models :
                        i < j => models[i].created_at >= models[j].created_at
                  /\ models # << >>
                  /\ models[1].id = held[t]

\* The cap of the transport on the text of one message: one above the limit
\* the content is split at.
TextCap == ChunkLimit + 1

\* C35: the text of every message sent through a webhook, as it is after
\* the reply quote and the emoji conversion, is no longer than the cap of
\* the transport, for a message of the listener and for one of /rp.
C35_SentTextWithinCap ==
    result.kind = "texts"
       => \A i \in DOMAIN result.texts : Len(result.texts[i]) <= TextCap

\* The call of send_as_profile for the j-th part has returned: it sent a
\* message or it reported why it did not.
Completed(j) == calls[j].message_sent # 0 \/ calls[j].reported # NoMessage

\* C36: the parts of a message are handed to send_as_profile in their
\* order and one at a time: a call is made only when the call for the part
\* before it has returned, with a message sent or without, and no other
\* coroutine sends for the message.
C36_OneChunkAtATime ==
    Dispatched =>
        /\ Len(calls) <= Len(track.content_parts_msg)
        /\ \A j \in DOMAIN calls :
              /\ calls[j].content = track.content_parts_msg[j]
              /\ j < Len(calls) => Completed(j)
        /\ pc[1] # "idle" => track.i = Len(calls)
        /\ \A t \in Tasks \ {1} : pc[t] = "idle"

\* The third part is on its way while the first was sent and the second
\* was refused.
C36_Witness ==
    /\ Dispatched /\ Len(calls) = 3
    /\ pc[1] = "send_wait"
    /\ calls[1].message_sent # 0
    /\ calls[2].message_sent = 0 /\ calls[2].reported # NoMessage
    /\ calls[1].content # calls[3].content

\* The reaction is a unicode emoji with one of the two names of the
\* source, added in the enabled channel by a user who is not the bot.
RemovalAsked ==
    /\ arg.kind = "reaction" /\ result.kind = "reaction"
    /\ arg.emoji.unicode /\ arg.emoji.name \in { "U+00E2 U+0152", ":x:" }
    /\ arg.channel_id \in enabled_channels
    /\ arg.user_id \in Users

\* C37: on_raw_reaction_add deletes the message only for a removal emoji
\* added in an enabled channel by a user other than the bot of whom the
\* history has the row (user_id, message_id); for such a reaction of a user
\* without the row the message stays and the reaction is removed.
C37_OnlyTheAuthorRemoves ==
    /\ (result.kind = "reaction" /\ result.effect = "deleted")
          => RemovalAsked /\ << arg.user_id, arg.message_id >> \in history
    /\ (RemovalAsked /\ arg.fetched /\ ~\E row \in history : row = << arg.user_id, arg.message_id >>)
          => result.effect = "reaction_removed"

\* The user who had the message sent removes it with a removal emoji, while
\* the history has a row of the other user for another message.
C37_Witness ==
    /\ RemovalAsked /\ result.effect = "deleted"
    /\ \E row \in history : row[1] # arg.user_id

\* C38: for a message that track_messages hands to the loop over its
\* parts, message.delete() is called once the call for its last part has
\* returned, and not before, whether send_as_profile sent all of the
\* parts, some of them or none.
C38_DeletedAfterTheLastPart ==
    /\ []((Dispatched /\ delete_asked)
             => /\ track.pc = "done"
                /\ Len(calls) = Len(track.content_parts_msg)
                /\ \A j \in DOMAIN calls :
                      calls[j].message_sent # 0 \/ calls[j].reported # NoMessage)
    /\ Dispatched ~> (track.pc = "done" /\ delete_asked)

\* The message is deleted after its first part was sent and its second
\* part was refused.
C38_Witness ==
    /\ Dispatched /\ track.pc = "done" /\ delete_asked
    /\ Len(calls) = 2
    /\ calls[1].message_sent # 0
    /\ calls[2].message_sent = 0

\* C39: a message whose author is a bot, the messages the webhooks of the
\* bot send among them, and a message of a channel that is not enabled
\* have no effect in track_messages: nothing is sent or deleted, the cache,
\* the transport and the history stay as they are, and no call of
\* send_as_profile is made.
C39_BotsAndOtherChannelsIgnored ==
    [][(message.bot \/ message.channel \notin enabled_channels)
          => UNCHANGED << cacheVars, storeVars, taskVars, calls, delete_asked >>]_vars

\* A message in the form "trigger: text" that a bot wrote in the enabled
\* channel has been handled.
C39_Witness ==
    /\ message.bot /\ message.channel \in enabled_channels
    /\ track.pc = "done" /\ track.verdict = "ignored"

\* The j-th of the slices of the given length that the line is cut into;
\* the last one is what is left of the line.
SliceOf(line, limit, j) ==
    SubSeq(line, (j - 1) * limit + 1, IF j * limit < Len(line) THEN j * limit ELSE Len(line))

\* The parts from the k-th on are the line cut into slices of the length
\* of the limit.
CutAt(parts, k, line, limit) ==
    LET n == (Len(line) + limit - 1) \div limit
    IN  /\ k + n - 1 <= Len(parts)
        /\ \A j \in 1..n : parts[k + j - 1] = SliceOf(line, limit, j)

\* C40: _split_message returns the text as its only part when the text is
\* not longer than the limit; otherwise no part is empty, and every line
\* longer than the limit is among the parts as consecutive slices of
\* exactly limit characters, the last slice being what is left.  3000
\* times the same character with the default limit gives two parts, of
\* 1999 and 1001 characters.
C40_LongLineIsSliced ==
    (arg.kind = "split" /\ result.kind = "split") =>
        /\ Len(arg.message) <= arg.limit => result.parts = << arg.message >>
        /\ Len(arg.message) > arg.limit =>
              /\ \A i \in DOMAIN result.parts : result.parts[i] # << >>
              /\ \A l \in DOMAIN SplitLines(arg.message) :
                    LET line == SplitLines(arg.message)[l]
                    IN  Len(line) > arg.limit
                           => \E k \in DOMAIN result.parts :
                                 CutAt(result.parts, k, line, arg.limit)
        /\ (Len(arg.message) = 3000 /\ arg.limit = DefaultLimit)
              => /\ Len(result.parts) = 2
                 /\ Len(result.parts[1]) = 1999
                 /\ Len(result.parts[2]) = 1001

\* The text of 3000 characters has been split at the default limit.
C40_Witness ==
    /\ arg.kind = "split" /\ result.kind = "split"
    /\ Len(arg.message) = 3000 /\ arg.limit = DefaultLimit
    /\ Len(result.parts) = 2

====
